---- MODULE Spec2Model ----
(***************************************************************************)
(* Model of the jaundice-rate article pipeline (src/urls_handler.py,       *)
(* src/text_tools.py, src/server.py): one batch of URLs handled by         *)
(* handle_sessions, one asyncio task per URL running process_article, on   *)
(* a single-threaded cooperative event loop.                               *)
(*                                                                         *)
(* URLs and article texts are sequences of Unicode code points (the words  *)
(* of the repository's tests are Cyrillic, and the classes of the regular  *)
(* expression are those of Unicode); a word is a sequence of code points.  *)
(* A rate is kept in hundredths of a percent (33.33 is 3333).  A value     *)
(* that may be None is an empty or one-element sequence.                   *)
(***************************************************************************)
EXTENDS Integers, Sequences, FiniteSets, TLC

\* ------------------------------------------------------------------ bounds
\* Largest number of URLs in one batch.
MaxUrls == 2
\* Largest length of a text drawn for the tokenizer on its own.
MaxTextLen == 4
\* The tasks that call handle_sessions side by side.
MaxHandlers == 2
\* The batches they run in all.
MaxBatches == 2
\* Largest length of a list of words drawn for the scorer on its own.
MaxWords == 3

\* ------------------------------------------------------- program constants
TIMEOUT_TIME == 3
DefaultMaxArticles == 10

\* The time a GET takes before its response is there, in timer units: up to
\* one unit more than the deadline.  A response that would come after the
\* deadline is never received, however late it would come.
MaxLatency == TIMEOUT_TIME + 1

None == <<>>
Some(x) == <<x>>

NoTask == 0
Workers == 1..MaxUrls

\* --------------------------------------------------------------- characters
\* The classes of the regular expression of get_sanitize_func.  The pattern
\* is a str, so \d and \w are the classes of Unicode: \d the decimal digits
\* of every script, \w the alphanumeric code points and the underscore.
\* The tables are those of Unicode 14.0.0, as ranges <<first, last>>.
DigitRanges == {
    <<48, 57>>, <<1632, 1641>>, <<1776, 1785>>, <<1984, 1993>>, <<2406, 2415>>, <<2534, 2543>>,
    <<2662, 2671>>, <<2790, 2799>>, <<2918, 2927>>, <<3046, 3055>>, <<3174, 3183>>, <<3302, 3311>>,
    <<3430, 3439>>, <<3558, 3567>>, <<3664, 3673>>, <<3792, 3801>>, <<3872, 3881>>, <<4160, 4169>>,
    <<4240, 4249>>, <<6112, 6121>>, <<6160, 6169>>, <<6470, 6479>>, <<6608, 6617>>, <<6784, 6793>>,
    <<6800, 6809>>, <<6992, 7001>>, <<7088, 7097>>, <<7232, 7241>>, <<7248, 7257>>, <<42528, 42537>>,
    <<43216, 43225>>, <<43264, 43273>>, <<43472, 43481>>, <<43504, 43513>>, <<43600, 43609>>, <<44016, 44025>>,
    <<65296, 65305>>, <<66720, 66729>>, <<68912, 68921>>, <<69734, 69743>>, <<69872, 69881>>, <<69942, 69951>>,
    <<70096, 70105>>, <<70384, 70393>>, <<70736, 70745>>, <<70864, 70873>>, <<71248, 71257>>, <<71360, 71369>>,
    <<71472, 71481>>, <<71904, 71913>>, <<72016, 72025>>, <<72784, 72793>>, <<73040, 73049>>, <<73120, 73129>>,
    <<92768, 92777>>, <<92864, 92873>>, <<93008, 93017>>, <<120782, 120831>>, <<123200, 123209>>, <<123632, 123641>>,
    <<125264, 125273>>, <<130032, 130041>>}

WordRanges == {
    <<48, 57>>, <<65, 90>>, <<95, 95>>, <<97, 122>>, <<170, 170>>, <<178, 179>>,
    <<181, 181>>, <<185, 186>>, <<188, 190>>, <<192, 214>>, <<216, 246>>, <<248, 705>>,
    <<710, 721>>, <<736, 740>>, <<748, 748>>, <<750, 750>>, <<880, 884>>, <<886, 887>>,
    <<890, 893>>, <<895, 895>>, <<902, 902>>, <<904, 906>>, <<908, 908>>, <<910, 929>>,
    <<931, 1013>>, <<1015, 1153>>, <<1162, 1327>>, <<1329, 1366>>, <<1369, 1369>>, <<1376, 1416>>,
    <<1488, 1514>>, <<1519, 1522>>, <<1568, 1610>>, <<1632, 1641>>, <<1646, 1647>>, <<1649, 1747>>,
    <<1749, 1749>>, <<1765, 1766>>, <<1774, 1788>>, <<1791, 1791>>, <<1808, 1808>>, <<1810, 1839>>,
    <<1869, 1957>>, <<1969, 1969>>, <<1984, 2026>>, <<2036, 2037>>, <<2042, 2042>>, <<2048, 2069>>,
    <<2074, 2074>>, <<2084, 2084>>, <<2088, 2088>>, <<2112, 2136>>, <<2144, 2154>>, <<2160, 2183>>,
    <<2185, 2190>>, <<2208, 2249>>, <<2308, 2361>>, <<2365, 2365>>, <<2384, 2384>>, <<2392, 2401>>,
    <<2406, 2415>>, <<2417, 2432>>, <<2437, 2444>>, <<2447, 2448>>, <<2451, 2472>>, <<2474, 2480>>,
    <<2482, 2482>>, <<2486, 2489>>, <<2493, 2493>>, <<2510, 2510>>, <<2524, 2525>>, <<2527, 2529>>,
    <<2534, 2545>>, <<2548, 2553>>, <<2556, 2556>>, <<2565, 2570>>, <<2575, 2576>>, <<2579, 2600>>,
    <<2602, 2608>>, <<2610, 2611>>, <<2613, 2614>>, <<2616, 2617>>, <<2649, 2652>>, <<2654, 2654>>,
    <<2662, 2671>>, <<2674, 2676>>, <<2693, 2701>>, <<2703, 2705>>, <<2707, 2728>>, <<2730, 2736>>,
    <<2738, 2739>>, <<2741, 2745>>, <<2749, 2749>>, <<2768, 2768>>, <<2784, 2785>>, <<2790, 2799>>,
    <<2809, 2809>>, <<2821, 2828>>, <<2831, 2832>>, <<2835, 2856>>, <<2858, 2864>>, <<2866, 2867>>,
    <<2869, 2873>>, <<2877, 2877>>, <<2908, 2909>>, <<2911, 2913>>, <<2918, 2927>>, <<2929, 2935>>,
    <<2947, 2947>>, <<2949, 2954>>, <<2958, 2960>>, <<2962, 2965>>, <<2969, 2970>>, <<2972, 2972>>,
    <<2974, 2975>>, <<2979, 2980>>, <<2984, 2986>>, <<2990, 3001>>, <<3024, 3024>>, <<3046, 3058>>,
    <<3077, 3084>>, <<3086, 3088>>, <<3090, 3112>>, <<3114, 3129>>, <<3133, 3133>>, <<3160, 3162>>,
    <<3165, 3165>>, <<3168, 3169>>, <<3174, 3183>>, <<3192, 3198>>, <<3200, 3200>>, <<3205, 3212>>,
    <<3214, 3216>>, <<3218, 3240>>, <<3242, 3251>>, <<3253, 3257>>, <<3261, 3261>>, <<3293, 3294>>,
    <<3296, 3297>>, <<3302, 3311>>, <<3313, 3314>>, <<3332, 3340>>, <<3342, 3344>>, <<3346, 3386>>,
    <<3389, 3389>>, <<3406, 3406>>, <<3412, 3414>>, <<3416, 3425>>, <<3430, 3448>>, <<3450, 3455>>,
    <<3461, 3478>>, <<3482, 3505>>, <<3507, 3515>>, <<3517, 3517>>, <<3520, 3526>>, <<3558, 3567>>,
    <<3585, 3632>>, <<3634, 3635>>, <<3648, 3654>>, <<3664, 3673>>, <<3713, 3714>>, <<3716, 3716>>,
    <<3718, 3722>>, <<3724, 3747>>, <<3749, 3749>>, <<3751, 3760>>, <<3762, 3763>>, <<3773, 3773>>,
    <<3776, 3780>>, <<3782, 3782>>, <<3792, 3801>>, <<3804, 3807>>, <<3840, 3840>>, <<3872, 3891>>,
    <<3904, 3911>>, <<3913, 3948>>, <<3976, 3980>>, <<4096, 4138>>, <<4159, 4169>>, <<4176, 4181>>,
    <<4186, 4189>>, <<4193, 4193>>, <<4197, 4198>>, <<4206, 4208>>, <<4213, 4225>>, <<4238, 4238>>,
    <<4240, 4249>>, <<4256, 4293>>, <<4295, 4295>>, <<4301, 4301>>, <<4304, 4346>>, <<4348, 4680>>,
    <<4682, 4685>>, <<4688, 4694>>, <<4696, 4696>>, <<4698, 4701>>, <<4704, 4744>>, <<4746, 4749>>,
    <<4752, 4784>>, <<4786, 4789>>, <<4792, 4798>>, <<4800, 4800>>, <<4802, 4805>>, <<4808, 4822>>,
    <<4824, 4880>>, <<4882, 4885>>, <<4888, 4954>>, <<4969, 4988>>, <<4992, 5007>>, <<5024, 5109>>,
    <<5112, 5117>>, <<5121, 5740>>, <<5743, 5759>>, <<5761, 5786>>, <<5792, 5866>>, <<5870, 5880>>,
    <<5888, 5905>>, <<5919, 5937>>, <<5952, 5969>>, <<5984, 5996>>, <<5998, 6000>>, <<6016, 6067>>,
    <<6103, 6103>>, <<6108, 6108>>, <<6112, 6121>>, <<6128, 6137>>, <<6160, 6169>>, <<6176, 6264>>,
    <<6272, 6276>>, <<6279, 6312>>, <<6314, 6314>>, <<6320, 6389>>, <<6400, 6430>>, <<6470, 6509>>,
    <<6512, 6516>>, <<6528, 6571>>, <<6576, 6601>>, <<6608, 6618>>, <<6656, 6678>>, <<6688, 6740>>,
    <<6784, 6793>>, <<6800, 6809>>, <<6823, 6823>>, <<6917, 6963>>, <<6981, 6988>>, <<6992, 7001>>,
    <<7043, 7072>>, <<7086, 7141>>, <<7168, 7203>>, <<7232, 7241>>, <<7245, 7293>>, <<7296, 7304>>,
    <<7312, 7354>>, <<7357, 7359>>, <<7401, 7404>>, <<7406, 7411>>, <<7413, 7414>>, <<7418, 7418>>,
    <<7424, 7615>>, <<7680, 7957>>, <<7960, 7965>>, <<7968, 8005>>, <<8008, 8013>>, <<8016, 8023>>,
    <<8025, 8025>>, <<8027, 8027>>, <<8029, 8029>>, <<8031, 8061>>, <<8064, 8116>>, <<8118, 8124>>,
    <<8126, 8126>>, <<8130, 8132>>, <<8134, 8140>>, <<8144, 8147>>, <<8150, 8155>>, <<8160, 8172>>,
    <<8178, 8180>>, <<8182, 8188>>, <<8304, 8305>>, <<8308, 8313>>, <<8319, 8329>>, <<8336, 8348>>,
    <<8450, 8450>>, <<8455, 8455>>, <<8458, 8467>>, <<8469, 8469>>, <<8473, 8477>>, <<8484, 8484>>,
    <<8486, 8486>>, <<8488, 8488>>, <<8490, 8493>>, <<8495, 8505>>, <<8508, 8511>>, <<8517, 8521>>,
    <<8526, 8526>>, <<8528, 8585>>, <<9312, 9371>>, <<9450, 9471>>, <<10102, 10131>>, <<11264, 11492>>,
    <<11499, 11502>>, <<11506, 11507>>, <<11517, 11517>>, <<11520, 11557>>, <<11559, 11559>>, <<11565, 11565>>,
    <<11568, 11623>>, <<11631, 11631>>, <<11648, 11670>>, <<11680, 11686>>, <<11688, 11694>>, <<11696, 11702>>,
    <<11704, 11710>>, <<11712, 11718>>, <<11720, 11726>>, <<11728, 11734>>, <<11736, 11742>>, <<11823, 11823>>,
    <<12293, 12295>>, <<12321, 12329>>, <<12337, 12341>>, <<12344, 12348>>, <<12353, 12438>>, <<12445, 12447>>,
    <<12449, 12538>>, <<12540, 12543>>, <<12549, 12591>>, <<12593, 12686>>, <<12690, 12693>>, <<12704, 12735>>,
    <<12784, 12799>>, <<12832, 12841>>, <<12872, 12879>>, <<12881, 12895>>, <<12928, 12937>>, <<12977, 12991>>,
    <<13312, 19903>>, <<19968, 42124>>, <<42192, 42237>>, <<42240, 42508>>, <<42512, 42539>>, <<42560, 42606>>,
    <<42623, 42653>>, <<42656, 42735>>, <<42775, 42783>>, <<42786, 42888>>, <<42891, 42954>>, <<42960, 42961>>,
    <<42963, 42963>>, <<42965, 42969>>, <<42994, 43009>>, <<43011, 43013>>, <<43015, 43018>>, <<43020, 43042>>,
    <<43056, 43061>>, <<43072, 43123>>, <<43138, 43187>>, <<43216, 43225>>, <<43250, 43255>>, <<43259, 43259>>,
    <<43261, 43262>>, <<43264, 43301>>, <<43312, 43334>>, <<43360, 43388>>, <<43396, 43442>>, <<43471, 43481>>,
    <<43488, 43492>>, <<43494, 43518>>, <<43520, 43560>>, <<43584, 43586>>, <<43588, 43595>>, <<43600, 43609>>,
    <<43616, 43638>>, <<43642, 43642>>, <<43646, 43695>>, <<43697, 43697>>, <<43701, 43702>>, <<43705, 43709>>,
    <<43712, 43712>>, <<43714, 43714>>, <<43739, 43741>>, <<43744, 43754>>, <<43762, 43764>>, <<43777, 43782>>,
    <<43785, 43790>>, <<43793, 43798>>, <<43808, 43814>>, <<43816, 43822>>, <<43824, 43866>>, <<43868, 43881>>,
    <<43888, 44002>>, <<44016, 44025>>, <<44032, 55203>>, <<55216, 55238>>, <<55243, 55291>>, <<63744, 64109>>,
    <<64112, 64217>>, <<64256, 64262>>, <<64275, 64279>>, <<64285, 64285>>, <<64287, 64296>>, <<64298, 64310>>,
    <<64312, 64316>>, <<64318, 64318>>, <<64320, 64321>>, <<64323, 64324>>, <<64326, 64433>>, <<64467, 64829>>,
    <<64848, 64911>>, <<64914, 64967>>, <<65008, 65019>>, <<65136, 65140>>, <<65142, 65276>>, <<65296, 65305>>,
    <<65313, 65338>>, <<65345, 65370>>, <<65382, 65470>>, <<65474, 65479>>, <<65482, 65487>>, <<65490, 65495>>,
    <<65498, 65500>>, <<65536, 65547>>, <<65549, 65574>>, <<65576, 65594>>, <<65596, 65597>>, <<65599, 65613>>,
    <<65616, 65629>>, <<65664, 65786>>, <<65799, 65843>>, <<65856, 65912>>, <<65930, 65931>>, <<66176, 66204>>,
    <<66208, 66256>>, <<66273, 66299>>, <<66304, 66339>>, <<66349, 66378>>, <<66384, 66421>>, <<66432, 66461>>,
    <<66464, 66499>>, <<66504, 66511>>, <<66513, 66517>>, <<66560, 66717>>, <<66720, 66729>>, <<66736, 66771>>,
    <<66776, 66811>>, <<66816, 66855>>, <<66864, 66915>>, <<66928, 66938>>, <<66940, 66954>>, <<66956, 66962>>,
    <<66964, 66965>>, <<66967, 66977>>, <<66979, 66993>>, <<66995, 67001>>, <<67003, 67004>>, <<67072, 67382>>,
    <<67392, 67413>>, <<67424, 67431>>, <<67456, 67461>>, <<67463, 67504>>, <<67506, 67514>>, <<67584, 67589>>,
    <<67592, 67592>>, <<67594, 67637>>, <<67639, 67640>>, <<67644, 67644>>, <<67647, 67669>>, <<67672, 67702>>,
    <<67705, 67742>>, <<67751, 67759>>, <<67808, 67826>>, <<67828, 67829>>, <<67835, 67867>>, <<67872, 67897>>,
    <<67968, 68023>>, <<68028, 68047>>, <<68050, 68096>>, <<68112, 68115>>, <<68117, 68119>>, <<68121, 68149>>,
    <<68160, 68168>>, <<68192, 68222>>, <<68224, 68255>>, <<68288, 68295>>, <<68297, 68324>>, <<68331, 68335>>,
    <<68352, 68405>>, <<68416, 68437>>, <<68440, 68466>>, <<68472, 68497>>, <<68521, 68527>>, <<68608, 68680>>,
    <<68736, 68786>>, <<68800, 68850>>, <<68858, 68899>>, <<68912, 68921>>, <<69216, 69246>>, <<69248, 69289>>,
    <<69296, 69297>>, <<69376, 69415>>, <<69424, 69445>>, <<69457, 69460>>, <<69488, 69505>>, <<69552, 69579>>,
    <<69600, 69622>>, <<69635, 69687>>, <<69714, 69743>>, <<69745, 69746>>, <<69749, 69749>>, <<69763, 69807>>,
    <<69840, 69864>>, <<69872, 69881>>, <<69891, 69926>>, <<69942, 69951>>, <<69956, 69956>>, <<69959, 69959>>,
    <<69968, 70002>>, <<70006, 70006>>, <<70019, 70066>>, <<70081, 70084>>, <<70096, 70106>>, <<70108, 70108>>,
    <<70113, 70132>>, <<70144, 70161>>, <<70163, 70187>>, <<70272, 70278>>, <<70280, 70280>>, <<70282, 70285>>,
    <<70287, 70301>>, <<70303, 70312>>, <<70320, 70366>>, <<70384, 70393>>, <<70405, 70412>>, <<70415, 70416>>,
    <<70419, 70440>>, <<70442, 70448>>, <<70450, 70451>>, <<70453, 70457>>, <<70461, 70461>>, <<70480, 70480>>,
    <<70493, 70497>>, <<70656, 70708>>, <<70727, 70730>>, <<70736, 70745>>, <<70751, 70753>>, <<70784, 70831>>,
    <<70852, 70853>>, <<70855, 70855>>, <<70864, 70873>>, <<71040, 71086>>, <<71128, 71131>>, <<71168, 71215>>,
    <<71236, 71236>>, <<71248, 71257>>, <<71296, 71338>>, <<71352, 71352>>, <<71360, 71369>>, <<71424, 71450>>,
    <<71472, 71483>>, <<71488, 71494>>, <<71680, 71723>>, <<71840, 71922>>, <<71935, 71942>>, <<71945, 71945>>,
    <<71948, 71955>>, <<71957, 71958>>, <<71960, 71983>>, <<71999, 71999>>, <<72001, 72001>>, <<72016, 72025>>,
    <<72096, 72103>>, <<72106, 72144>>, <<72161, 72161>>, <<72163, 72163>>, <<72192, 72192>>, <<72203, 72242>>,
    <<72250, 72250>>, <<72272, 72272>>, <<72284, 72329>>, <<72349, 72349>>, <<72368, 72440>>, <<72704, 72712>>,
    <<72714, 72750>>, <<72768, 72768>>, <<72784, 72812>>, <<72818, 72847>>, <<72960, 72966>>, <<72968, 72969>>,
    <<72971, 73008>>, <<73030, 73030>>, <<73040, 73049>>, <<73056, 73061>>, <<73063, 73064>>, <<73066, 73097>>,
    <<73112, 73112>>, <<73120, 73129>>, <<73440, 73458>>, <<73648, 73648>>, <<73664, 73684>>, <<73728, 74649>>,
    <<74752, 74862>>, <<74880, 75075>>, <<77712, 77808>>, <<77824, 78894>>, <<82944, 83526>>, <<92160, 92728>>,
    <<92736, 92766>>, <<92768, 92777>>, <<92784, 92862>>, <<92864, 92873>>, <<92880, 92909>>, <<92928, 92975>>,
    <<92992, 92995>>, <<93008, 93017>>, <<93019, 93025>>, <<93027, 93047>>, <<93053, 93071>>, <<93760, 93846>>,
    <<93952, 94026>>, <<94032, 94032>>, <<94099, 94111>>, <<94176, 94177>>, <<94179, 94179>>, <<94208, 100343>>,
    <<100352, 101589>>, <<101632, 101640>>, <<110576, 110579>>, <<110581, 110587>>, <<110589, 110590>>, <<110592, 110882>>,
    <<110928, 110930>>, <<110948, 110951>>, <<110960, 111355>>, <<113664, 113770>>, <<113776, 113788>>, <<113792, 113800>>,
    <<113808, 113817>>, <<119520, 119539>>, <<119648, 119672>>, <<119808, 119892>>, <<119894, 119964>>, <<119966, 119967>>,
    <<119970, 119970>>, <<119973, 119974>>, <<119977, 119980>>, <<119982, 119993>>, <<119995, 119995>>, <<119997, 120003>>,
    <<120005, 120069>>, <<120071, 120074>>, <<120077, 120084>>, <<120086, 120092>>, <<120094, 120121>>, <<120123, 120126>>,
    <<120128, 120132>>, <<120134, 120134>>, <<120138, 120144>>, <<120146, 120485>>, <<120488, 120512>>, <<120514, 120538>>,
    <<120540, 120570>>, <<120572, 120596>>, <<120598, 120628>>, <<120630, 120654>>, <<120656, 120686>>, <<120688, 120712>>,
    <<120714, 120744>>, <<120746, 120770>>, <<120772, 120779>>, <<120782, 120831>>, <<122624, 122654>>, <<123136, 123180>>,
    <<123191, 123197>>, <<123200, 123209>>, <<123214, 123214>>, <<123536, 123565>>, <<123584, 123627>>, <<123632, 123641>>,
    <<124896, 124902>>, <<124904, 124907>>, <<124909, 124910>>, <<124912, 124926>>, <<124928, 125124>>, <<125127, 125135>>,
    <<125184, 125251>>, <<125259, 125259>>, <<125264, 125273>>, <<126065, 126123>>, <<126125, 126127>>, <<126129, 126132>>,
    <<126209, 126253>>, <<126255, 126269>>, <<126464, 126467>>, <<126469, 126495>>, <<126497, 126498>>, <<126500, 126500>>,
    <<126503, 126503>>, <<126505, 126514>>, <<126516, 126519>>, <<126521, 126521>>, <<126523, 126523>>, <<126530, 126530>>,
    <<126535, 126535>>, <<126537, 126537>>, <<126539, 126539>>, <<126541, 126543>>, <<126545, 126546>>, <<126548, 126548>>,
    <<126551, 126551>>, <<126553, 126553>>, <<126555, 126555>>, <<126557, 126557>>, <<126559, 126559>>, <<126561, 126562>>,
    <<126564, 126564>>, <<126567, 126570>>, <<126572, 126578>>, <<126580, 126583>>, <<126585, 126588>>, <<126590, 126590>>,
    <<126592, 126601>>, <<126603, 126619>>, <<126625, 126627>>, <<126629, 126633>>, <<126635, 126651>>, <<127232, 127244>>,
    <<130032, 130041>>, <<131072, 173791>>, <<173824, 177976>>, <<177984, 178205>>, <<178208, 183969>>, <<183984, 191456>>,
    <<194560, 195101>>, <<196608, 201546>>}

\* \d
Digit == UNION {r[1]..r[2] : r \in DigitRanges}
\* \w
Word == UNION {r[1]..r[2] : r \in WordRanges}
\* a-z
Lower == 97..122
\* [\da-z\.-]
ClassHost == Digit \cup Lower \cup {46, 45}
\* [a-z\.]
ClassTld == Lower \cup {46}
\* [\/\w \.-]
ClassPath == Word \cup {47, 32, 46, 45}

\* ----------------------------------------------------- get_sanitize_func
\* The regular expression of get_sanitize_func,
\*   ^(http|https?:\/\/)?([\da-z\.-]+)\.([a-z\.]{2,6})([\/\w \.-]*)*\/?$
\* matched the way a backtracking matcher does: the alternatives of group 1
\* in their order, then no group 1; group 2 as long as possible; group 3 as
\* long as possible.

StartsWith(url, prefix) ==
    /\ Len(url) >= Len(prefix)
    /\ SubSeq(url, 1, Len(prefix)) = prefix

\* "http", and "https://" and "http://" (https?:\/\/)
HTTP == <<104, 116, 116, 112>>
HTTPS_SLASHES == <<104, 116, 116, 112, 115, 58, 47, 47>>
HTTP_SLASHES == <<104, 116, 116, 112, 58, 47, 47>>

\* The lengths group 1 may take, in the order the matcher tries them.
SchemeLengths(url) ==
    (IF StartsWith(url, HTTP) THEN <<Len(HTTP)>> ELSE <<>>)
    \o (IF StartsWith(url, HTTPS_SLASHES) THEN <<Len(HTTPS_SLASHES)>>
        ELSE IF StartsWith(url, HTTP_SLASHES) THEN <<Len(HTTP_SLASHES)>>
        ELSE <<>>)
    \o <<0>>

AllIn(s, from, to, class) == \A k \in from..to : s[k] \in class

\* Where $ matches: at the end of s, or before a newline (10) that ends s.  No
\* class of the expression holds the newline, so a match of an s that ends
\* with one stops before it.
MatchEnd(s) == IF s # <<>> /\ s[Len(s)] = 10 THEN Len(s) - 1 ELSE Len(s)

\* <<i, j>>: group 2 is s[1..i], then a dot (46), group 3 is s[i+2..i+1+j], and
\* the rest of s is matched by ([\/\w \.-]*)*\/?$
HostMatches(s) ==
    {ij \in (1..Len(s)) \X (2..6) :
        /\ ij[1] + 1 + ij[2] <= MatchEnd(s)
        /\ AllIn(s, 1, ij[1], ClassHost)
        /\ s[ij[1] + 1] = 46
        /\ AllIn(s, ij[1] + 2, ij[1] + 1 + ij[2], ClassTld)
        /\ AllIn(s, ij[1] + 2 + ij[2], MatchEnd(s), ClassPath)}

\* The match the greedy matcher finds first.
FirstHostMatch(s) ==
    CHOOSE ij \in HostMatches(s) :
        \A other \in HostMatches(s) :
            \/ other[1] < ij[1]
            \/ other[1] = ij[1] /\ other[2] <= ij[2]

RECURSIVE FindAll(_, _)
\* re.findall(...): no match is <<>>, a match is <<url_parts>> with
\* url_parts = <<group 1, group 2, group 3, group 4>> (group 4, the last
\* repetition of the path group, is not used and kept empty).
FindAll(url, schemes) ==
    IF schemes = <<>> THEN <<>>
    ELSE LET p == Head(schemes)
             s == SubSeq(url, p + 1, Len(url))
         IN IF HostMatches(s) = {} THEN FindAll(url, Tail(schemes))
            ELSE LET ij == FirstHostMatch(s)
                 IN << <<SubSeq(url, 1, p),
                         SubSeq(s, 1, ij[1]),
                         SubSeq(s, ij[1] + 2, ij[1] + 1 + ij[2]),
                         <<>> >> >>

\* '_'.join(url_parts[1:-1]); 95 is the underscore.
SanitizeFuncName(url_parts) == url_parts[2] \o <<95>> \o url_parts[3]

\* adapters.SANITIZERS: the registered extractors, by name: "inosmi_ru".
SANITIZERS == { <<105, 110, 111, 115, 109, 105, 95, 114, 117>> }

\* get_sanitize_func(url): the extractor's name, or the exception raised.
\* first() of an empty list raises ValueError.
GetSanitizeFunc(url) ==
    LET found == FindAll(url, SchemeLengths(url))
    IN IF found = <<>> THEN [raises |-> "ValueError", name |-> <<>>]
       ELSE LET name == SanitizeFuncName(found[1])
            IN IF name \notin SANITIZERS
               THEN [raises |-> "ArticleNotFound", name |-> name]
               ELSE [raises |-> "", name |-> name]

\* ------------------------------------------------------------ text_tools
\* Code points: str.split() separators, string.punctuation, and the glyphs
\* _clean_word removes.
Whitespace == {9, 10, 11, 12, 13, 28, 29, 30, 31, 32, 133, 160, 5760}
              \cup (8192..8202) \cup {8232, 8233, 8239, 8287, 12288}
Punctuation == (33..47) \cup (58..64) \cup (91..96) \cup (123..126)
\* 171 and 187 are the angle quotation marks, 8230 is the ellipsis.
Glyphs == {171, 187, 8230}

RECURSIVE SplitFrom(_, _, _)
\* text.split(): the maximal runs of non-whitespace, in order.  cur is the
\* word being read, k the next position.
SplitFrom(article_text, k, cur) ==
    IF k > Len(article_text)
    THEN (IF cur = <<>> THEN <<>> ELSE <<cur>>)
    ELSE IF article_text[k] \in Whitespace
         THEN (IF cur = <<>> THEN <<>> ELSE <<cur>>)
                 \o SplitFrom(article_text, k + 1, <<>>)
         ELSE SplitFrom(article_text, k + 1, Append(cur, article_text[k]))

Split(article_text) == SplitFrom(article_text, 1, <<>>)

\* word.replace(g, '') for the three glyphs
RemoveGlyphs(word) == SelectSeq(word, LAMBDA c : c \notin Glyphs)

RECURSIVE LStrip(_)
LStrip(word) ==
    IF word # <<>> /\ Head(word) \in Punctuation THEN LStrip(Tail(word)) ELSE word

RECURSIVE RStrip(_)
RStrip(word) ==
    IF word # <<>> /\ word[Len(word)] \in Punctuation
    THEN RStrip(SubSeq(word, 1, Len(word) - 1))
    ELSE word

\* word.strip(string.punctuation)
StripPunctuation(word) == RStrip(LStrip(word))

\* _clean_word(word)
CleanWord(word) == StripPunctuation(RemoveGlyphs(word))

\* The words of the repository's tests (transliterated in the comments).
W_NE == <<1085, 1077>>                                           \* ne
W_VO_PERVYH == <<1042, 1086, 45, 1087, 1077, 1088, 1074, 1099, 1093>>       \* Vo-pervyh
W_VO_PERVYH_FORM == <<1074, 1086, 45, 1087, 1077, 1088, 1074, 1099, 1093>>  \* vo-pervyh
W_HOCHET == <<1093, 1086, 1095, 1077, 1090>>                     \* hochet
W_HOTET == <<1093, 1086, 1090, 1077, 1090, 1100>>                \* hotet'
W_CHTOBY == <<1095, 1090, 1086, 1073, 1099>>                     \* chtoby
W_UDIVITELNO == <<1059, 1076, 1080, 1074, 1080, 1090, 1077, 1083, 1100, 1085, 1086>>
W_UDIVITELNO_FORM == <<1091, 1076, 1080, 1074, 1080, 1090, 1077, 1083, 1100, 1085, 1086>>
W_ETO == <<1101, 1090, 1086>>                                    \* eto
W_STALO == <<1089, 1090, 1072, 1083, 1086>>                      \* stalo
W_STAT == <<1089, 1090, 1072, 1090, 1100>>                       \* stat'
W_NACHALOM == <<1085, 1072, 1095, 1072, 1083, 1086, 1084>>       \* nachalom
W_NACHALO == <<1085, 1072, 1095, 1072, 1083, 1086>>              \* nachalo
W_AUTSAIDER == <<1072, 1091, 1090, 1089, 1072, 1081, 1076, 1077, 1088>>
W_BANKROTSTVO == <<1073, 1072, 1085, 1082, 1088, 1086, 1090, 1089, 1090, 1074, 1086>>

\* The texts of run_tests_split_by_words and the lists they are to give.
TEST_TEXT_HOCHET ==
    <<1042, 1086, 45, 1087, 1077, 1088, 1074, 1099, 1093, 44, 32, 1086, 1085,
      32, 1093, 1086, 1095, 1077, 1090, 44, 32, 1095, 1090, 1086, 1073, 1099>>
TEST_WORDS_HOCHET == <<W_VO_PERVYH_FORM, W_HOTET, W_CHTOBY>>
TEST_TEXT_STALO ==
    <<171, 1059, 1076, 1080, 1074, 1080, 1090, 1077, 1083, 1100, 1085, 1086,
      44, 32, 1085, 1086, 32, 1101, 1090, 1086, 32, 1089, 1090, 1072, 1083,
      1086, 32, 1085, 1072, 1095, 1072, 1083, 1086, 1084, 33, 187>>
TEST_WORDS_STALO == <<W_UDIVITELNO_FORM, W_ETO, W_STAT, W_NACHALO>>

\* <<word, normal form>> for the words the two tests keep: their normal
\* forms are what the tests assert.
TESTED_FORMS ==
    { <<W_VO_PERVYH, W_VO_PERVYH_FORM>>, <<W_HOCHET, W_HOTET>>,
      <<W_CHTOBY, W_CHTOBY>>, <<W_UDIVITELNO, W_UDIVITELNO_FORM>>,
      <<W_ETO, W_ETO>>, <<W_STALO, W_STAT>>, <<W_NACHALOM, W_NACHALO>> }

\* pymorphy2.MorphAnalyzer() is a library outside the repository, and what
\* it gives for a word that no test has is not fixed by the code.  An
\* analyzer is one of two: one gives such a word as it is, the other gives
\* it without its last letter (a normal form may be shorter than the word
\* and may be another word).
Analyzers == {"as_is", "shorter"}

\* morph.parse(word)[0].normal_form
NormalForm(analyzer, word) ==
    IF \E form \in TESTED_FORMS : form[1] = word
    THEN (CHOOSE form \in TESTED_FORMS : form[1] = word)[2]
    ELSE IF analyzer = "shorter" /\ word # <<>>
    THEN SubSeq(word, 1, Len(word) - 1)
    ELSE word

\* The length test off by one.
KeepWord_OffByOne(normalized_word) ==
    Len(normalized_word) >= 2 \/ normalized_word = W_NE

\* The condition of split_by_words for keeping a normalized word.
KeepWord(normalized_word) ==
    Len(normalized_word) > 2 \/ normalized_word = W_NE

\* One turn of the loop of split_by_words: words after handling word.
SplitStep(analyzer, article_words, word) ==
    LET normalized_word == NormalForm(analyzer, CleanWord(word))
    IN IF KeepWord(normalized_word) THEN Append(article_words, normalized_word)
       ELSE article_words

\* get_charged_words(): the lexicon, read from files once per batch.
ChargedWords == {W_AUTSAIDER, W_BANKROTSTVO}

\* ---- the floating point of calculate_jaundice_rate
\* A float is a whole number of units of 2^(-scale): [limbs, scale], limbs
\* the digits of the number to the base Limb, the lowest first.  The
\* division is done a limb at a time, which serves lists of fewer than 2^21
\* words.
MantissaBits == 53
LimbBits == 10
Limb == 1024

RECURSIVE Pow2(_)
Pow2(z) == IF z = 0 THEN 1 ELSE 2 * Pow2(z - 1)

\* The number of binary digits of n, 0 <= n < Limb.
BitLength(n) == CHOOSE b \in 0..LimbBits : n < Pow2(b) /\ (b = 0 \/ Pow2(b - 1) <= n)

\* Limb j of a number, the limbs it does not have being 0.
LimbAt(limbs, j) == IF j \in 1..Len(limbs) THEN limbs[j] ELSE 0

\* limbs * k + carry, for k and carry below Limb
RECURSIVE Times(_, _, _)
Times(limbs, k, carry) ==
    IF limbs = <<>> THEN (IF carry = 0 THEN <<>> ELSE <<carry>>)
    ELSE LET t == Head(limbs) * k + carry
         IN <<t % Limb>> \o Times(Tail(limbs), k, t \div Limb)

\* limbs + n, for n at most Limb
RECURSIVE Plus(_, _)
Plus(limbs, n) ==
    IF n = 0 THEN limbs
    ELSE IF limbs = <<>> THEN <<n>>
    ELSE LET t == Head(limbs) + n
         IN <<t % Limb>> \o Plus(Tail(limbs), t \div Limb)

\* The least z with num * 2^z >= den, for 0 < num <= den.
RECURSIVE LeadingZeros(_, _)
LeadingZeros(num, den) ==
    IF num >= den THEN 0 ELSE 1 + LeadingZeros(2 * num, den)

\* <<the first n limbs of r / den after the point, what is left of r>>, for
\* r < den.
RECURSIVE LongDivision(_, _, _)
LongDivision(r, den, n) ==
    IF n = 0 THEN <<<<>>, r>>
    ELSE LET t == r * Limb
             rest == LongDivision(t % den, den, n - 1)
         IN <<rest[1] \o <<t \div den>>, rest[2]>>

\* num / den of two ints, 0 < num <= den: the float nearest to the quotient,
\* ties to even.  The quotient is brought into [1, 2); its mantissa is the
\* leading 1, two binary digits and five limbs.
TrueDivide(num, den) ==
    LET z == LeadingZeros(num, den)
        t == (num * Pow2(z) - den) * 4
        digits == LongDivision(t % den, den, 5)
        mantissa == digits[1] \o <<4 + t \div den>>
        left == digits[2]
        up == 2 * left > den \/ (2 * left = den /\ mantissa[1] % 2 = 1)
    IN [limbs |-> IF up THEN Plus(mantissa, 1) ELSE mantissa,
        scale |-> MantissaBits - 1 + z]

\* x * k of a float and a small int: the float nearest to the product, ties
\* to even.  The digits the mantissa has no room for are cleared.
FloatTimes(x, k) ==
    LET product == Times(x.limbs, k, 0)
        length == (Len(product) - 1) * LimbBits
                     + BitLength(product[Len(product)])
        extra == IF length > MantissaBits THEN length - MantissaBits ELSE 0
        unit == Pow2(extra)
        dropped == product[1] % unit
        kept == [product EXCEPT ![1] = @ - dropped]
        up == \/ 2 * dropped > unit
              \/ 2 * dropped = unit /\ extra > 0 /\ (product[1] \div unit) % 2 = 1
    IN [limbs |-> IF up THEN Plus(kept, unit) ELSE kept,
        scale |-> x.scale]

\* round(x, 2) of a float 0 <= x <= 100, in hundredths: the number of
\* hundredths nearest to the exact value of x, ties to even.
Round2(x) ==
    LET scaled == Times(x.limbs, 100, 0)
        first == x.scale \div LimbBits + 1
        whole == (LimbAt(scaled, first) + LimbAt(scaled, first + 1) * Limb
                     + LimbAt(scaled, first + 2) * Limb * Limb)
                 \div Pow2(x.scale % LimbBits)
        halfAt == (x.scale - 1) \div LimbBits + 1
        halfBit == Pow2((x.scale - 1) % LimbBits)
        half == (LimbAt(scaled, halfAt) \div halfBit) % 2 = 1
        more == \/ LimbAt(scaled, halfAt) % halfBit # 0
                \/ \E j \in 1..(halfAt - 1) : LimbAt(scaled, j) # 0
    IN IF half /\ (more \/ whole % 2 = 1) THEN whole + 1 ELSE whole

\* round(score, 2) of score = num / den * 100, in hundredths.
RoundHundredths(num, den) ==
    IF num = 0 THEN 0
    ELSE Round2(FloatTimes(TrueDivide(num, den), 100))

\* calculate_jaundice_rate without its guard for an empty list: the division
\* by len(article_words) fails; -1 stands for the ZeroDivisionError.
CalculateJaundiceRate_NoGuard(article_words, charged_words) ==
    IF article_words = <<>> THEN -1
    ELSE LET found_charged_words ==
                 SelectSeq(article_words, LAMBDA word : word \in charged_words)
         IN RoundHundredths(Len(found_charged_words), Len(article_words))

\* calculate_jaundice_rate counting every charged word found once, however
\* often the article has it.
CalculateJaundiceRate_Distinct(article_words, charged_words) ==
    IF article_words = <<>> THEN 0
    ELSE LET found_charged_words ==
                 {article_words[i] : i \in 1..Len(article_words)} \cap charged_words
         IN RoundHundredths(Cardinality(found_charged_words), Len(article_words))

\* calculate_jaundice_rate(article_words, charged_words), in hundredths.
CalculateJaundiceRate(article_words, charged_words) ==
    IF article_words = <<>> THEN 0
    ELSE LET found_charged_words ==
                 SelectSeq(article_words, LAMBDA word : word \in charged_words)
         IN RoundHundredths(Len(found_charged_words), Len(article_words))

\* ------------------------------------------------------------------ inputs
\* The URLs a batch is drawn from: a registered site, a site with no
\* extractor (the one of test_parsing_of_articles), and a URL the regular
\* expression does not match (a query string), of the one site and of the
\* other.
\* "https://inosmi.ru/a"
URL_INOSMI == <<104, 116, 116, 112, 115, 58, 47, 47,
                105, 110, 111, 115, 109, 105, 46, 114, 117, 47, 97>>
\* "https://lenta.ru/a"
URL_LENTA == <<104, 116, 116, 112, 115, 58, 47, 47,
               108, 101, 110, 116, 97, 46, 114, 117, 47, 97>>
\* "https://inosmi.ru/a?b"
URL_QUERY == <<104, 116, 116, 112, 115, 58, 47, 47,
               105, 110, 111, 115, 109, 105, 46, 114, 117, 47, 97, 63, 98>>
\* "https://lenta.ru/a?b"
URL_LENTA_QUERY == <<104, 116, 116, 112, 115, 58, 47, 47,
                     108, 101, 110, 116, 97, 46, 114, 117, 47, 97, 63, 98>>
Urls == {URL_INOSMI, URL_LENTA, URL_QUERY}
\* The URLs of the batches that try the dispatch by host: the registered
\* site, and the site with no extractor with both of its URLs.
HostUrls == {URL_INOSMI, URL_LENTA, URL_LENTA_QUERY}
AllUrls == Urls \cup HostUrls

\* The batches: every sequence of at most MaxUrls URLs, duplicates included.
UrlLists == UNION {[1..n -> Urls] : n \in 0..MaxUrls}
HostUrlLists == UNION {[1..n -> HostUrls] : n \in 0..MaxUrls}

\* The pages an extractor tells apart: an article, an article with no text,
\* and a page the extractor finds no article in.
Pages == {"page_article", "page_empty", "page_no_article"}

\* "ne autsaider," : the particle that is kept, and a charged word with a
\* comma.
TEXT_ARTICLE == <<1085, 1077, 32, 1072, 1091, 1090, 1089, 1072, 1081, 1076, 1077, 1088, 44>>

\* sanitize_func(html, True) of a registered extractor: the title and the
\* plain text of the page, or ArticleNotFound when the page holds no article.
Sanitize(page) ==
    CASE page = "page_article" ->
            [raises |-> "", title |-> <<"Article">>, text |-> TEXT_ARTICLE]
      [] page = "page_empty" ->
            [raises |-> "", title |-> <<"Empty">>, text |-> <<>>]
      [] OTHER ->
            [raises |-> "ArticleNotFound", title |-> <<>>, text |-> <<>>]

\* What a GET ends with: a response with a success status, a response with
\* an error status (raise_for_status raises ClientResponseError), or a
\* failure of the connection (ClientConnectorError and its kin, which are
\* ClientError but not ClientResponseError).
FetchResults == {"ok", "ClientResponseError", "ClientConnectorError"}

\* ------------------------------------------------------------------- state
VARIABLES
    entry,              \* "server": server.main; "direct": a caller as the tests
    logHandler,         \* urls_handler.LogHandler is a handler of the root logger
    test_mode,          \* test_mode_var
    test_timeout,       \* test_timeout_var
    morph,              \* the analyzer pymorphy2.MorphAnalyzer() gives
    max_articles_count, \* server.main: MAX_ARTICLES_COUNT
    urls,               \* the batch handed to handle_sessions
    batch,              \* where the caller of the batch is
    result,             \* what handle_sessions returned: None or Some(list)
    articles_rate,      \* the list articles_rate_var holds for this batch
    exceptions,         \* the task group's exceptions, in the order raised
    cancelled,          \* the task group's cancel scope is cancelled
    spared,             \* the tasks the cancellation has passed over
    running,            \* the task the event loop is running, or NoTask
    pc,                 \* per worker: its stage
    exit,               \* per worker: how process_article ended
    remaining,          \* per worker: time left until its timeout fires
    wait,               \* per worker: time left until what it awaits is ready
    timerFired,         \* per worker: its timeout has cancelled the task
    queued,             \* the tasks whose wake-up is in the loop's queue ahead
                        \* of the callback of their timeout
    html,               \* per worker: the page fetched
    title,              \* per worker: article_title
    text,               \* per worker: article_text
    todo,               \* per worker: the words split_by_words has yet to handle
    words,              \* per worker: the list split_by_words builds
    emitted,            \* per worker: the records it passed to logging.info
    gets,               \* per worker: the GET requests it issued
    late,               \* per worker: the response to its GET comes after the
                        \* timeout is due
    fetched,            \* per worker: what its fetch ended with, once it has
    session,            \* the aiohttp.ClientSession of the batch
    lexicon,            \* charged_words: what get_charged_words gave the batch
    reported,           \* the workers in the order of their logging.info(record)
    jaundice_rate,      \* what calculate_jaundice_rate returned, called on its own
    lists,              \* the list objects articles_rate_var was given
    context,            \* per task: the list its context binds articles_rate_var
                        \* to, or Unset
    request,            \* per handler: where its call of handle_sessions is
    serial,             \* per handler: the list its running batch was given
    pending,            \* per handler: the workers of its batch yet to report
    response            \* per handler: what its last handle_sessions returned

config == <<entry, logHandler, test_mode, test_timeout, morph, max_articles_count>>
host == <<urls, batch, result>>
group == <<exceptions, cancelled, spared>>
timers == <<remaining, wait, timerFired, queued>>
article == <<html, title, text, todo, words>>
history == <<gets, late, fetched>>
services == <<session, lexicon>>
requests == <<lists, context, request, serial, pending, response>>
elsewhere == <<jaundice_rate, requests>>
vars == <<config, host, services, group, timers, article, articles_rate,
          running, pc, exit, emitted, reported, history, elsewhere>>

Stages == {"PENDING", "SLEEPING", "FETCHING", "EXTRACTING", "TOKENIZING",
           "SCORING", "DONE"}
\* A timeout that outlives its block: its timer may still cancel the task
\* after process_article has ended.
Suspended_OrEnded(w) ==
    /\ running # w
    /\ pc[w] \in {"SLEEPING", "FETCHING", "TOKENIZING", "DONE"}

\* The stages in which a task is suspended at an await inside the timeout.
Suspended(w) ==
    /\ running # w
    /\ pc[w] \in {"SLEEPING", "FETCHING", "TOKENIZING"}

\* The tasks of the event loop: one per URL of the batch; the test of
\* split_by_words runs it in a single task.
Spawned == IF batch = "test_split" THEN {1} ELSE 1..Len(urls)

\* The tasks that call handle_sessions side by side (the tasks of the web
\* server's connections, or callers of their own), and the tasks of their
\* workers.
Handlers == 1..MaxHandlers
\* <<h, 0>> is the task of handler h, <<h, w>> the task of its worker w.
Tasks == Handlers \X (0..MaxUrls)
HandlerTask(h) == <<h, 0>>

\* articles_rate_var has no value in a context: get() gives its default, the
\* one list made when the module was loaded, lists[DefaultList].
Unset == 0
DefaultList == 1

\* Nothing has been asked of the session, the lexicon and the scorer.
NoServices ==
    /\ session = "none"
    /\ lexicon = {}
    /\ jaundice_rate = None

\* No handler has called handle_sessions: the only list is the default of
\* articles_rate_var, and no context has set the variable.
NoRequests ==
    /\ lists = << <<>> >>
    /\ context = [t \in Tasks |-> Unset]
    /\ request = [h \in Handlers |-> "idle"]
    /\ serial = [h \in Handlers |-> Unset]
    /\ pending = [h \in Handlers |-> {}]
    /\ response = [h \in Handlers |-> None]

\* The contexts the batch is run in: by the web server (server.main gives
\* the root logger the default handler, the context variables keep their
\* defaults), or by a caller that installs LogHandler, as the tests do, with
\* or without the test mode and a delay (that of test_timeouts is
\* TIMEOUT_TIME + 1).
Init ==
    /\ entry \in {"server", "direct"}
    /\ logHandler = (entry = "direct")
    /\ test_mode \in (IF entry = "direct" THEN BOOLEAN ELSE {FALSE})
    /\ test_timeout \in (IF test_mode THEN {0, 1, TIMEOUT_TIME + 1} ELSE {0})
    /\ morph \in Analyzers
    /\ max_articles_count \in (IF entry = "server" THEN {1, DefaultMaxArticles}
                               ELSE {DefaultMaxArticles})
    /\ urls = <<>>
    /\ batch = "idle"
    /\ result = None
    /\ articles_rate = <<>>
    /\ exceptions = <<>>
    /\ cancelled = FALSE
    /\ spared = {}
    /\ running = NoTask
    /\ pc = [w \in Workers |-> "PENDING"]
    /\ exit = [w \in Workers |-> "none"]
    /\ remaining = [w \in Workers |-> 0]
    /\ wait = [w \in Workers |-> 0]
    /\ timerFired = [w \in Workers |-> FALSE]
    /\ queued = {}
    /\ html = [w \in Workers |-> "none"]
    /\ title = [w \in Workers |-> <<>>]
    /\ text = [w \in Workers |-> <<>>]
    /\ todo = [w \in Workers |-> <<>>]
    /\ words = [w \in Workers |-> <<>>]
    /\ emitted = [w \in Workers |-> <<>>]
    /\ gets = [w \in Workers |-> 0]
    /\ late = [w \in Workers |-> FALSE]
    /\ fetched = [w \in Workers |-> "none"]
    /\ reported = <<>>
    /\ NoServices
    /\ NoRequests

\* ------------------------------------------------------------ orchestrator
\* prepare_clien_session.inner up to the end of the task group's body:
\* articles_rate_var.set([]), the session, the analyzer, the lexicon, and
\* handle_sessions spawning one task per URL in the order of the list.
StartBatch(list) ==
    /\ urls' = list
    /\ batch' = "running"
    /\ articles_rate' = <<>>
    /\ session' = "open"
    /\ lexicon' = ChargedWords
    /\ UNCHANGED result

\* A caller awaiting handle_sessions(urls) itself, urls one of batches.
CallHandleSessionsWith(batches) ==
    /\ entry = "direct"
    /\ batch = "idle"
    /\ \E list \in batches : StartBatch(list)
    /\ UNCHANGED <<config, elsewhere, group, timers, article, running, pc, exit, emitted, reported, history>>

CallHandleSessions == CallHandleSessionsWith(UrlLists)

\* server.handle_index_page with get_urls, for a request with a urls
\* parameter: split(',') gives at least one URL.
HandleIndexPage ==
    /\ entry = "server"
    /\ batch = "idle"
    /\ \E list \in UrlLists \ {<<>>} :
          IF Len(list) > max_articles_count
          THEN /\ batch' = "redirect_400"
               /\ UNCHANGED <<urls, result, articles_rate, services>>
          ELSE StartBatch(list)
    /\ UNCHANGED <<config, elsewhere, group, timers, article, running, pc, exit, emitted, reported, history>>

\* A caller awaiting handle_sessions(urls) with a batch that tries the
\* dispatch by host.
CallHandleSessionsHosts == CallHandleSessionsWith(HostUrlLists)

\* server.handle_index_page with get_urls, for a request with no parameters.
HandleIndexPageNoQuery ==
    /\ entry = "server"
    /\ batch = "idle"
    /\ batch' = "redirect_404"
    /\ UNCHANGED <<urls, result, services, config, elsewhere, group, timers, article, articles_rate,
                   running, pc, exit, emitted, reported, history>>

\* server.handle_index_page with get_urls, for a request that has parameters
\* but none named urls: query_params['urls'] raises KeyError, which no
\* handler catches; handle_sessions is not called.
HandleIndexPageNoUrls ==
    /\ entry = "server"
    /\ batch = "idle"
    /\ batch' = "key_error"
    /\ UNCHANGED <<urls, result, services, config, elsewhere, group, timers, article, articles_rate,
                   running, pc, exit, emitted, reported, history>>

\* A task group whose block ends before its tasks have: the tasks are
\* started and left to themselves.
AllTasksEnded_NotAwaited == \A w \in Spawned : pc[w] # "PENDING"

\* The end of the block of the task group waits for every task spawned.
AllTasksEnded == \A w \in Spawned : pc[w] = "DONE"

\* The end of the task group and of prepare_clien_session.inner: every task
\* has ended; an exception a task raised is raised again, otherwise the list
\* of the context variable is returned.
TaskGroupExit ==
    /\ batch = "running"
    /\ running = NoTask
    /\ AllTasksEnded
    /\ IF exceptions # <<>>
       THEN batch' = "raised" /\ UNCHANGED result
       ELSE batch' = "returned" /\ result' = Some(articles_rate)
    /\ session' = "closed"
    /\ UNCHANGED lexicon
    /\ UNCHANGED <<urls, config, elsewhere, group, timers, article, articles_rate, running,
                   pc, exit, emitted, reported, history>>

\* ------------------------------------------------------------------ logging
\* A failure record that carries a rate of 0.0 and no words.
ErrorRecord_WithRate(exc, name) ==
    [title |-> <<"error">>,
     status |-> IF exc = "ClientResponseError" THEN "FETCH_ERROR"
                ELSE IF exc = "ArticleNotFound" THEN "PARSING_ERROR"
                ELSE "TIMEOUT",
     rate |-> Some(0), count_words |-> None]

\* The record of a failure, as handle_exceptions builds it.  name is the
\* message of ArticleNotFound.
ErrorTitle(exc, name) ==
    CASE exc = "ClientResponseError" -> <<"URL not exist">>
      [] exc = "ArticleNotFound" -> <<"Statya na ">> \o name
      [] exc = "TimeoutError" -> <<"Vremya ozhidaniya otveta isteklo">>

ErrorStatus(exc) ==
    CASE exc = "ClientResponseError" -> "FETCH_ERROR"
      [] exc = "ArticleNotFound" -> "PARSING_ERROR"
      [] exc = "TimeoutError" -> "TIMEOUT"

ErrorRecord(exc, name) ==
    [title |-> ErrorTitle(exc, name), status |-> ErrorStatus(exc),
     rate |-> None, count_words |-> None]

\* The record of process_article for an article it has rated.
OkRecord(article_title, article_words, rate) ==
    [title |-> article_title, status |-> "OK",
     rate |-> Some(rate), count_words |-> Some(Len(article_words))]

\* A handler that puts the newest record first.
SaveIntoContext_Prepend(articles, article_rate) == <<article_rate>> \o articles

\* LogHandler.save_into_context: the list of the context variable with the
\* record appended.  Every task of the batch holds the same list.
SaveIntoContext(articles, article_rate) == Append(articles, article_rate)

\* logging.info(record) by worker w, record a dict: the root logger hands it
\* to its handlers; LogHandler.emit saves it, the default handler of
\* server.main only prints it.
LoggingInfo(w, record) ==
    /\ emitted' = [emitted EXCEPT ![w] = Append(@, record)]
    /\ reported' = Append(reported, w)
    /\ articles_rate' = IF logHandler
                        THEN SaveIntoContext(articles_rate, record)
                        ELSE articles_rate

\* ------------------------------------------------------- handle_exceptions
\* handle_exceptions without the clause for ArticleNotFound.
CaughtExceptions_NoParsing == {"ClientResponseError", "TimeoutError"}

\* The exceptions handle_exceptions has an except clause for.
CaughtExceptions == {"ClientResponseError", "ArticleNotFound", "TimeoutError"}

\* handle_exceptions that never raises a caught exception again.
Propagates_NeverAgain(exc) == exc \notin CaughtExceptions

\* The exception leaves handle_exceptions: it is not caught, or it is caught
\* and raised again in the test mode.
Propagates(exc) == exc \notin CaughtExceptions \/ test_mode

\* The step of w ends: of the wake-ups that were in the queue when it
\* began, those of the tasks whose timeout has become due since are still
\* ahead of the callback of that timeout.
StillQueued(w) == {v \in queued \ {w} : remaining[v] = 0}

\* The end of the timeout block: its timer is cancelled.
CancelTimer(w) ==
    /\ remaining' = [remaining EXCEPT ![w] = 0]
    /\ wait' = [wait EXCEPT ![w] = 0]
    /\ timerFired' = [timerFired EXCEPT ![w] = FALSE]
    /\ queued' = StillQueued(w)

\* The tasks other than w whose awaited future is done and whose step the
\* loop has yet to run: the sleep is over or the response is there, and
\* the callback of the timeout has not run; the timeout is not due, or it
\* became due with the wake-up of the task in the queue already.  The loop
\* runs what is in its queue in order, and puts the callback of a timer
\* that has become due behind what is there.
FutureDone(w) ==
    {v \in Spawned \ {w} :
        /\ pc[v] \in {"SLEEPING", "FETCHING"}
        /\ wait[v] = 0
        /\ remaining[v] > 0 \/ v \in queued
        /\ ~timerFired[v]}

\* The tasks other than w that await asyncio.sleep(0) in split_by_words:
\* they wait for no future, their next step is in the queue of the loop.
StepQueued(w) ==
    {v \in Spawned \ {w} :
        /\ pc[v] = "TOKENIZING"
        /\ running # v
        /\ ~timerFired[v]}

\* The cancel scope of the task group is cancelled by the failure of w: the
\* tasks it passes over.  The code does not pin the release of anyio.  A
\* release that cancels every started task in the step that failed passes
\* over none.  A release that cancels the scope in a callback of the task
\* that failed, behind the steps the loop has in its queue, and leaves
\* alone a task whose awaited future is done, passes over the tasks whose
\* future is done and those that await asyncio.sleep(0): each runs its next
\* step and is cancelled at the await that follows.  A scope that is
\* cancelled already is not cancelled again.
SparedBy(w) ==
    IF cancelled THEN {spared \ {w}}
    ELSE {{}, FutureDone(w) \cup StepQueued(w)}

\* exc is raised in worker w inside handle_exceptions: a caught exception is
\* logged; an exception that leaves handle_exceptions leaves process_article
\* (run_timer has no handler), the task group records it and cancels its
\* scope.  Otherwise run_timer logs the time and process_article returns.
Raise(w, exc, name) ==
    /\ IF exc \in CaughtExceptions
       THEN LoggingInfo(w, ErrorRecord(exc, name))
       ELSE UNCHANGED <<emitted, reported, articles_rate>>
    /\ IF Propagates(exc)
       THEN /\ exceptions' = Append(exceptions, [task |-> w, exc |-> exc])
            /\ cancelled' = TRUE
            /\ spared' \in SparedBy(w)
            /\ exit' = [exit EXCEPT ![w] = "raised"]
       ELSE /\ UNCHANGED <<exceptions, cancelled>>
            /\ spared' = spared \ {w}
            /\ exit' = [exit EXCEPT ![w] = "returned"]
    /\ pc' = [pc EXCEPT ![w] = "DONE"]
    /\ running' = NoTask
    /\ CancelTimer(w)

\* ---------------------------------------------------------- process_article
\* set_timeout.inner: the fetch sleeps first.
SleepsFirst == test_mode /\ test_timeout # 0

\* A fetch that sends its GET a second time.
IssueGet_Twice(w) ==
    /\ pc' = [pc EXCEPT ![w] = "FETCHING"]
    /\ gets' = [gets EXCEPT ![w] = @ + 2]
    /\ \E d \in 0..MaxLatency :
          /\ wait' = [wait EXCEPT ![w] = d]
          /\ late' = [late EXCEPT ![w] = (d > remaining'[w])]
    /\ UNCHANGED fetched

\* session.get(url): one GET, answered after some time.
IssueGet(w) ==
    /\ pc' = [pc EXCEPT ![w] = "FETCHING"]
    /\ gets' = [gets EXCEPT ![w] = @ + 1]
    /\ \E d \in 0..MaxLatency :
          /\ wait' = [wait EXCEPT ![w] = d]
          /\ late' = [late EXCEPT ![w] = (d > remaining'[w])]
    /\ UNCHANGED fetched

\* The first step of the task of worker w: run_timer, handle_exceptions and
\* timeout(TIMEOUT_TIME) are entered and fetch is awaited.  The tasks start
\* in the order they were spawned.
Start(w) ==
    /\ batch = "running"
    /\ w \in Spawned
    /\ pc[w] = "PENDING"
    /\ running = NoTask
    /\ \A v \in Spawned : v < w => pc[v] # "PENDING"
    /\ remaining' = [remaining EXCEPT ![w] = TIMEOUT_TIME]
    /\ IF SleepsFirst
       THEN /\ pc' = [pc EXCEPT ![w] = "SLEEPING"]
            /\ wait' = [wait EXCEPT ![w] = test_timeout]
            /\ UNCHANGED history
       ELSE IssueGet(w)
    /\ UNCHANGED <<config, elsewhere, host, services, group, timerFired, queued, article,
                   articles_rate, running, exit, emitted, reported>>

\* The task may go on from what it awaits: the loop is free, every task
\* spawned has had its first step (the loop runs them before it looks for
\* responses), and nothing has cancelled the task: the scope of the task
\* group is not cancelled or its cancellation has passed over the task, and
\* the callback of the timeout has not run.
MayResume(w) ==
    /\ batch \in {"running", "test_split"}
    /\ w \in Spawned
    /\ running = NoTask
    /\ \A v \in Spawned : pc[v] # "PENDING"
    /\ ~cancelled \/ w \in spared
    /\ ~timerFired[w]

\* The wake-up of w is run before the callback of its timeout: the timeout
\* is not due, or the wake-up was in the queue when it became due.  Nothing
\* in the code looks at the clock.
AheadOfTimeout(w) == remaining[w] > 0 \/ w \in queued

\* set_timeout.inner after asyncio.sleep(test_timeout).
Wake(w) ==
    /\ MayResume(w)
    /\ pc[w] = "SLEEPING"
    /\ wait[w] = 0
    /\ AheadOfTimeout(w)
    /\ spared' = spared \ {w}
    /\ queued' = queued \ {w}
    /\ UNCHANGED <<config, elsewhere, host, services, exceptions, cancelled, remaining,
                   timerFired, article, articles_rate, running, exit, emitted, reported>>
    /\ IssueGet(w)

\* get_sanitize_func(url) for each URL a batch may hold.
SanitizeFuncOf == [url \in AllUrls |-> GetSanitizeFunc(url)]

\* The pages a GET of the URL may return, told apart by what the extractor
\* of the URL makes of them.  The page of a URL that get_sanitize_func
\* raises for is fetched and never read: such pages are all alike.
PagesOf(url) ==
    IF SanitizeFuncOf[url].raises = "" THEN Pages ELSE {"page_unread"}

\* fetch returns or raises.  A step that goes on takes the loop: the
\* wake-ups of the tasks whose future is done are in the queue behind it.
FetchReturn(w) ==
    /\ MayResume(w)
    /\ pc[w] = "FETCHING"
    /\ wait[w] = 0
    /\ AheadOfTimeout(w)
    /\ \E r \in FetchResults :
          /\ fetched' = [fetched EXCEPT ![w] = r]
          /\ IF r = "ok"
             THEN /\ \E page \in PagesOf(urls[w]) : html' = [html EXCEPT ![w] = page]
                  /\ pc' = [pc EXCEPT ![w] = "EXTRACTING"]
                  /\ running' = w
                  /\ spared' = spared \ {w}
                  /\ queued' = FutureDone(w)
                  /\ UNCHANGED <<exceptions, cancelled, remaining, wait, timerFired, exit,
                                 emitted, reported, articles_rate>>
             ELSE /\ Raise(w, r, <<>>)
                  /\ UNCHANGED html
    /\ UNCHANGED <<config, elsewhere, host, services, title, text, todo, words, gets, late>>

\* split_by_words(morph, text) is called: the text is split, the list of
\* words is empty.
CallSplitByWords(w, article_text) ==
    /\ text' = [text EXCEPT ![w] = article_text]
    /\ todo' = [todo EXCEPT ![w] = Split(article_text)]
    /\ words' = [words EXCEPT ![w] = <<>>]

\* get_sanitize_func(url) and sanitize_func(html, True), then the call of
\* split_by_words up to its loop.
Extract(w) ==
    /\ running = w
    /\ pc[w] = "EXTRACTING"
    /\ LET f == SanitizeFuncOf[urls[w]]
           a == Sanitize(html[w])
       IN IF f.raises # ""
          THEN /\ Raise(w, f.raises, f.name)
               /\ UNCHANGED <<title, text, todo, words>>
          ELSE IF a.raises # ""
          THEN /\ Raise(w, a.raises, f.name)
               /\ UNCHANGED <<title, text, todo, words>>
          ELSE /\ title' = [title EXCEPT ![w] = a.title]
               /\ CallSplitByWords(w, a.text)
               /\ pc' = [pc EXCEPT ![w] = "TOKENIZING"]
               /\ UNCHANGED <<group, timers, exit, emitted, reported, articles_rate, running>>
    /\ UNCHANGED <<config, elsewhere, host, services, html, history>>

\* A turn of the loop of split_by_words with no await: the task keeps the
\* event loop.
TokenizeWord_NoYield(w) ==
    /\ running = w
    /\ pc[w] = "TOKENIZING"
    /\ todo[w] # <<>>
    /\ words' = [words EXCEPT ![w] = SplitStep(morph, @, Head(todo[w]))]
    /\ todo' = [todo EXCEPT ![w] = Tail(@)]
    /\ UNCHANGED <<config, elsewhere, host, services, group, timers, html, title,
                   text, articles_rate, running, pc, exit, emitted, reported,
                   history>>

\* One turn of the loop of split_by_words, up to its await asyncio.sleep(0).
TokenizeWord(w) ==
    /\ running = w
    /\ pc[w] = "TOKENIZING"
    /\ todo[w] # <<>>
    /\ words' = [words EXCEPT ![w] = SplitStep(morph, @, Head(todo[w]))]
    /\ todo' = [todo EXCEPT ![w] = Tail(@)]
    /\ running' = NoTask
    /\ queued' = StillQueued(w)
    /\ UNCHANGED <<config, elsewhere, host, services, group, remaining, wait, timerFired,
                   html, title, text, articles_rate, pc, exit, emitted, reported, history>>

\* The task goes on after asyncio.sleep(0).
TokenizeResume(w) ==
    /\ MayResume(w)
    /\ pc[w] = "TOKENIZING"
    /\ running' = w
    /\ spared' = spared \ {w}
    /\ queued' = FutureDone(w)
    /\ UNCHANGED <<config, elsewhere, host, services, exceptions, cancelled, remaining,
                   wait, timerFired, article, articles_rate, pc, exit, emitted,
                   reported, history>>

\* split_by_words returns.
TokenizeReturn(w) ==
    /\ running = w
    /\ pc[w] = "TOKENIZING"
    /\ todo[w] = <<>>
    /\ pc' = [pc EXCEPT ![w] = "SCORING"]
    /\ UNCHANGED <<config, elsewhere, host, services, group, timers, article, articles_rate, running,
                   exit, emitted, reported, history>>

\* The list split_by_words makes of the words of a text, given the list so
\* far.
RECURSIVE SplitByWords(_, _, _)
SplitByWords(analyzer, article_words, split) ==
    IF split = <<>> THEN article_words
    ELSE SplitByWords(analyzer, SplitStep(analyzer, article_words, Head(split)),
                      Tail(split))

\* split_by_words(morph, article_text) for each analyzer and the text of
\* each page.
ArticleWordsOf ==
    [analyzer \in Analyzers, page \in Pages |->
        SplitByWords(analyzer, <<>>, Split(Sanitize(page).text))]

\* calculate_jaundice_rate(article_words, charged_words) for the words of
\* each page and the lexicon.
JaundiceRateOf ==
    [analyzer \in Analyzers, page \in Pages |->
        CalculateJaundiceRate(ArticleWordsOf[analyzer, page], ChargedWords)]

\* calculate_jaundice_rate, the record of the article, and the end of
\* timeout, handle_exceptions, run_timer and process_article.
Score(w) ==
    /\ running = w
    /\ pc[w] = "SCORING"
    /\ LoggingInfo(w, OkRecord(title[w], words[w],
                               IF /\ lexicon = ChargedWords
                                  /\ words[w] = ArticleWordsOf[morph, html[w]]
                               THEN JaundiceRateOf[morph, html[w]]
                               ELSE CalculateJaundiceRate(words[w], lexicon)))
    /\ pc' = [pc EXCEPT ![w] = "DONE"]
    /\ exit' = [exit EXCEPT ![w] = "returned"]
    /\ running' = NoTask
    /\ CancelTimer(w)
    /\ UNCHANGED <<config, elsewhere, host, services, group, article, history>>

\* A timeout whose callback is never run.
TimerFire_Never(w) ==
    /\ FALSE
    /\ UNCHANGED vars

\* The timeout of worker w is due: its callback cancels the task.  It is
\* run after a wake-up of the task that was in the queue before it.
TimerFire(w) ==
    /\ batch = "running"
    /\ w \in Spawned
    /\ running = NoTask
    /\ Suspended(w)
    /\ remaining[w] = 0
    /\ w \notin queued
    /\ ~timerFired[w]
    /\ timerFired' = [timerFired EXCEPT ![w] = TRUE]
    /\ UNCHANGED <<config, elsewhere, host, services, group, remaining, wait, queued, article,
                   articles_rate, running, pc, exit, emitted, reported, history>>

\* The task is cancelled by its timeout and by the task group as well: the
\* callback of the timeout has run and the cancellation of the scope has not
\* passed over the task.
CancelledTwice(w) == timerFired[w] /\ cancelled /\ w \notin spared

\* The errors the timeout block may end with when CancelledError is thrown
\* into it.  The timeout turns CancelledError into TimeoutError when its own
\* callback has run.  The code does not pin the release of async_timeout:
\* the timeout of a release before 5 keeps a flag its callback sets, and
\* turns the error whenever the flag is set; that of a later release is
\* asyncio.timeout, which counts the cancellations of the task and leaves
\* the error as it is when something else has cancelled the task too.
ExitTimeout(w) ==
    IF ~timerFired[w] THEN {"CancelledError"}
    ELSE IF CancelledTwice(w) THEN {"TimeoutError", "CancelledError"}
    ELSE {"TimeoutError"}

\* CancelledError is thrown into the task at its await, unless the
\* cancellation of the scope has passed over the task.  TimeoutError goes
\* through handle_exceptions; CancelledError leaves process_article, nothing
\* catches it and the task group does not record it.
Deliver(w) ==
    /\ batch = "running"
    /\ w \in Spawned
    /\ running = NoTask
    /\ Suspended(w)
    /\ timerFired[w] \/ (cancelled /\ w \notin spared)
    /\ \E exc \in ExitTimeout(w) :
          IF exc = "TimeoutError"
          THEN Raise(w, "TimeoutError", <<>>)
          ELSE /\ pc' = [pc EXCEPT ![w] = "DONE"]
               /\ exit' = [exit EXCEPT ![w] = "cancelled"]
               /\ CancelTimer(w)
               /\ UNCHANGED <<group, emitted, reported, articles_rate, running>>
    /\ UNCHANGED <<config, elsewhere, host, services, article, history>>

\* ---------------------------------------------------------------------- time
Started(w) == w \in Spawned /\ pc[w] \notin {"PENDING", "DONE"}

\* The loop has something to run for worker w.
Ready(w) ==
    \/ pc[w] = "PENDING"
    \/ /\ Suspended(w)
       /\ \/ timerFired[w]
          \/ cancelled
          \/ remaining[w] = 0
          \/ pc[w] = "TOKENIZING"
          \/ wait[w] = 0

\* A unit of time passes: while a task runs, or while the loop has nothing
\* to run.
Tick ==
    /\ batch = "running"
    /\ running # NoTask \/ \A w \in Spawned : ~Ready(w)
    /\ \E w \in Spawned : Started(w) /\ (remaining[w] > 0 \/ wait[w] > 0)
    /\ remaining' = [w \in Workers |->
                        IF Started(w) /\ remaining[w] > 0
                        THEN remaining[w] - 1 ELSE remaining[w]]
    /\ wait' = [w \in Workers |->
                   IF Started(w) /\ wait[w] > 0 THEN wait[w] - 1 ELSE wait[w]]
    /\ UNCHANGED <<config, elsewhere, host, services, group, timerFired, queued, article,
                   articles_rate, running, pc, exit, emitted, reported, history>>

\* -------------------------------------------------------------- specification
Next ==
    \/ CallHandleSessions
    \/ HandleIndexPage
    \/ HandleIndexPageNoQuery
    \/ HandleIndexPageNoUrls
    \/ TaskGroupExit
    \/ Tick
    \/ \E w \in Workers :
          \/ Start(w)
          \/ Wake(w)
          \/ FetchReturn(w)
          \/ Extract(w)
          \/ TokenizeWord(w)
          \/ TokenizeResume(w)
          \/ TokenizeReturn(w)
          \/ Score(w)
          \/ TimerFire(w)
          \/ Deliver(w)

Spec == Init /\ [][Next]_vars

\* The batches that try the dispatch by host, run as any batch is, for a
\* caller that awaits handle_sessions itself, as test_parsing_of_articles
\* does (the workers of the web server are the same).
InitHosts == Init /\ entry = "direct"

NextHosts ==
    \/ CallHandleSessionsHosts
    \/ TaskGroupExit
    \/ Tick
    \/ \E w \in Workers :
          \/ Start(w)
          \/ Wake(w)
          \/ FetchReturn(w)
          \/ Extract(w)
          \/ TokenizeWord(w)
          \/ TokenizeResume(w)
          \/ TokenizeReturn(w)
          \/ Score(w)
          \/ TimerFire(w)
          \/ Deliver(w)

SpecHosts == InitHosts /\ [][NextHosts]_vars

\* The event loop does not stop while it has a callback to run, a timer to
\* wait for or a response to receive: a step that can be taken is taken in
\* the end.
FairSpec == Spec /\ WF_vars(Next)

\* ------------------------------------------------ split_by_words on its own
\* The characters the texts of the tokenizer's own runs are made of: space,
\* comma, the opening angle quotation mark, and the Cyrillic letters N
\* (capital), n and e.
TextAlphabet == {32, 44, 171, 1053, 1085, 1077}
\* The texts: every text of at most MaxTextLen of these characters, and the
\* two texts of run_tests_split_by_words.
Texts == UNION {[1..n -> TextAlphabet] : n \in 0..MaxTextLen}
         \cup {TEST_TEXT_HOCHET, TEST_TEXT_STALO}

\* run_tests_split_by_words: split_by_words is awaited on a text, with no
\* batch around it.
InitSplit ==
    /\ entry = "direct"
    /\ logHandler = FALSE
    /\ test_mode = FALSE
    /\ test_timeout = 0
    /\ morph \in Analyzers
    /\ max_articles_count = DefaultMaxArticles
    /\ urls = <<>>
    /\ batch = "test_split"
    /\ result = None
    /\ articles_rate = <<>>
    /\ exceptions = <<>>
    /\ cancelled = FALSE
    /\ spared = {}
    /\ running = NoTask
    /\ pc = [w \in Workers |-> "PENDING"]
    /\ exit = [w \in Workers |-> "none"]
    /\ remaining = [w \in Workers |-> 0]
    /\ wait = [w \in Workers |-> 0]
    /\ timerFired = [w \in Workers |-> FALSE]
    /\ queued = {}
    /\ html = [w \in Workers |-> "none"]
    /\ title = [w \in Workers |-> <<>>]
    /\ \E t \in Texts : text = [w \in Workers |-> IF w = 1 THEN t ELSE <<>>]
    /\ todo = [w \in Workers |-> <<>>]
    /\ words = [w \in Workers |-> <<>>]
    /\ emitted = [w \in Workers |-> <<>>]
    /\ gets = [w \in Workers |-> 0]
    /\ late = [w \in Workers |-> FALSE]
    /\ fetched = [w \in Workers |-> "none"]
    /\ reported = <<>>
    /\ NoServices
    /\ NoRequests

RunSplitByWords ==
    /\ batch = "test_split"
    /\ pc[1] = "PENDING"
    /\ running = NoTask
    /\ CallSplitByWords(1, text[1])
    /\ pc' = [pc EXCEPT ![1] = "TOKENIZING"]
    /\ running' = 1
    /\ UNCHANGED <<config, elsewhere, host, services, group, timers, html, title, articles_rate,
                   exit, emitted, reported, history>>

NextSplit ==
    \/ RunSplitByWords
    \/ \E w \in Workers :
          \/ TokenizeWord(w)
          \/ TokenizeResume(w)
          \/ TokenizeReturn(w)

SpecSplit == InitSplit /\ [][NextSplit]_vars

\* ------------------------------------------ calculate_jaundice_rate on its own
\* Outside a batch nothing of the workers has moved.
AtRest ==
    /\ urls = <<>>
    /\ result = None
    /\ articles_rate = <<>>
    /\ exceptions = <<>>
    /\ cancelled = FALSE
    /\ spared = {}
    /\ running = NoTask
    /\ pc = [w \in Workers |-> "PENDING"]
    /\ exit = [w \in Workers |-> "none"]
    /\ remaining = [w \in Workers |-> 0]
    /\ wait = [w \in Workers |-> 0]
    /\ timerFired = [w \in Workers |-> FALSE]
    /\ queued = {}
    /\ html = [w \in Workers |-> "none"]
    /\ title = [w \in Workers |-> <<>>]
    /\ text = [w \in Workers |-> <<>>]
    /\ todo = [w \in Workers |-> <<>>]
    /\ emitted = [w \in Workers |-> <<>>]
    /\ gets = [w \in Workers |-> 0]
    /\ late = [w \in Workers |-> FALSE]
    /\ fetched = [w \in Workers |-> "none"]
    /\ reported = <<>>
    /\ session = "none"

\* The words the lists and the lexicons of the scorer's own runs are made
\* of: the two charged words of test_calculate_jaundice_rate and a word that
\* is in no lexicon of the repository.
Vocabulary == {W_AUTSAIDER, W_BANKROTSTVO, W_NE}
WordLists == UNION {[1..n -> Vocabulary] : n \in 0..MaxWords}
Lexicons == SUBSET Vocabulary

\* test_calculate_jaundice_rate: the function is called with a list of words
\* and a lexicon, with no batch around it.
InitRate ==
    /\ entry = "direct"
    /\ logHandler = FALSE
    /\ test_mode = FALSE
    /\ test_timeout = 0
    /\ morph \in Analyzers
    /\ max_articles_count = DefaultMaxArticles
    /\ batch = "test_rate"
    /\ AtRest
    /\ \E l \in WordLists : words = [w \in Workers |-> IF w = 1 THEN l ELSE <<>>]
    /\ lexicon \in Lexicons
    /\ jaundice_rate = None
    /\ NoRequests

RunCalculateJaundiceRate ==
    /\ batch = "test_rate"
    /\ jaundice_rate = None
    /\ jaundice_rate' = Some(CalculateJaundiceRate(words[1], lexicon))
    /\ UNCHANGED <<config, host, services, group, timers, article, articles_rate,
                   running, pc, exit, emitted, reported, history, requests>>

NextRate == RunCalculateJaundiceRate

SpecRate == InitRate /\ [][NextRate]_vars

\* ------------------------------------------------ batches run side by side
\* articles_rate_var.get() in the context of task t.
ArticlesRateVarGet(t) == IF context[t] = Unset THEN DefaultList ELSE context[t]

\* A batch that does not set the variable: every batch is left with the
\* default list of articles_rate_var.
NewList_Default(objects) == DefaultList

\* The [] of articles_rate_var.set([]): a list object that did not exist.
NewList(objects) == Len(objects) + 1

\* The number of the next batch, in the order the batches begin.
NextSerial ==
    1 + (CHOOSE n \in 0..MaxBatches :
            /\ \A h \in Handlers : serial[h] <= n
            /\ n = 0 \/ \E h \in Handlers : serial[h] = n)

\* The record a worker logs, marked with the batch and the worker it is of.
RecordOf(h, w) == [batch |-> serial[h], worker |-> w]

\* Several callers of handle_sessions, each in a task of its own: the tasks
\* of the web server's connections, or tasks of a caller that installed
\* LogHandler.
InitBatches ==
    /\ entry \in {"server", "direct"}
    /\ logHandler = (entry = "direct")
    /\ test_mode = FALSE
    /\ test_timeout = 0
    /\ morph \in Analyzers
    /\ max_articles_count = DefaultMaxArticles
    /\ batch = "idle"
    /\ AtRest
    /\ words = [w \in Workers |-> <<>>]
    /\ NoServices
    /\ NoRequests

\* prepare_clien_session.inner in the task of handler h, up to the end of
\* the body of the task group: articles_rate_var.set([]) in the context of
\* the task, and one task per URL, each with a copy of that context.  The
\* handlers are alike, so they are numbered in the order of their first
\* batch.
BeginBatch(h) ==
    /\ request[h] \in {"idle", "returned", "raised"}
    /\ \A g \in Handlers : g < h => request[g] # "idle"
    /\ NextSerial <= MaxBatches
    /\ \E n \in 0..MaxUrls :
          LET id == NewList(lists)
          IN /\ lists' = IF id > Len(lists) THEN Append(lists, <<>>) ELSE lists
             /\ context' = [t \in Tasks |->
                               IF t[1] = h /\ t[2] <= n THEN id ELSE context[t]]
             /\ pending' = [pending EXCEPT ![h] = 1..n]
    /\ serial' = [serial EXCEPT ![h] = NextSerial]
    /\ request' = [request EXCEPT ![h] = "running"]
    /\ UNCHANGED <<response, config, host, services, group, timers, article,
                   articles_rate, running, pc, exit, emitted, reported, history,
                   jaundice_rate>>

\* logging.info(record) in the task of worker w of handler h:
\* LogHandler.save_into_context appends to the list of the task's context
\* and sets the variable to it.  A worker the cancellation of the task group
\* has passed over may still come to it.
WorkerReports(h, w) ==
    /\ request[h] \in {"running", "failing"}
    /\ w \in pending[h]
    /\ pending' = [pending EXCEPT ![h] = @ \ {w}]
    /\ IF logHandler
       THEN LET id == ArticlesRateVarGet(<<h, w>>)
            IN /\ lists' = [lists EXCEPT ![id] = SaveIntoContext(@, RecordOf(h, w))]
               /\ context' = [context EXCEPT ![<<h, w>>] = id]
       ELSE UNCHANGED <<lists, context>>
    /\ UNCHANGED <<request, serial, response, config, host, services, group,
                   timers, article, articles_rate, running, pc, exit, emitted,
                   reported, history, jaundice_rate>>

\* process_article of worker w of handler h ends with an exception that
\* handle_exceptions does not catch: nothing is logged, the task group
\* records the exception and cancels its scope.
WorkerFails(h, w) ==
    /\ request[h] \in {"running", "failing"}
    /\ w \in pending[h]
    /\ pending' = [pending EXCEPT ![h] = @ \ {w}]
    /\ request' = [request EXCEPT ![h] = "failing"]
    /\ UNCHANGED <<lists, context, serial, response, config, host, services,
                   group, timers, article, articles_rate, running, pc, exit,
                   emitted, reported, history, jaundice_rate>>

\* Worker w of handler h is cancelled by the task group: it ends at its
\* await and logs nothing.
WorkerCancelled(h, w) ==
    /\ request[h] = "failing"
    /\ w \in pending[h]
    /\ pending' = [pending EXCEPT ![h] = @ \ {w}]
    /\ UNCHANGED <<lists, context, request, serial, response, config, host,
                   services, group, timers, article, articles_rate, running, pc,
                   exit, emitted, reported, history, jaundice_rate>>

\* The end of the task group in the task of handler h when a worker has
\* failed: the exception is raised out of prepare_clien_session.inner, the
\* return statement is not reached and the caller is given no list.
RaiseBatch(h) ==
    /\ request[h] = "failing"
    /\ pending[h] = {}
    /\ response' = [response EXCEPT ![h] = None]
    /\ request' = [request EXCEPT ![h] = "raised"]
    /\ UNCHANGED <<lists, context, serial, pending, config, host, services,
                   group, timers, article, articles_rate, running, pc, exit,
                   emitted, reported, history, jaundice_rate>>

\* The end of the task group and of prepare_clien_session.inner in the task
\* of handler h when no worker has failed: return articles_rate_var.get().
ReturnBatch(h) ==
    /\ request[h] = "running"
    /\ pending[h] = {}
    /\ response' = [response EXCEPT
                       ![h] = Some(lists[ArticlesRateVarGet(HandlerTask(h))])]
    /\ request' = [request EXCEPT ![h] = "returned"]
    /\ UNCHANGED <<lists, context, serial, pending, config, host, services,
                   group, timers, article, articles_rate, running, pc, exit,
                   emitted, reported, history, jaundice_rate>>

NextBatches ==
    \E h \in Handlers :
        \/ BeginBatch(h)
        \/ \E w \in Workers :
              \/ WorkerReports(h, w)
              \/ WorkerFails(h, w)
              \/ WorkerCancelled(h, w)
        \/ RaiseBatch(h)
        \/ ReturnBatch(h)

SpecBatches == InitBatches /\ [][NextBatches]_vars

\* ===================================================================== claims
Statuses == {"OK", "FETCH_ERROR", "PARSING_ERROR", "TIMEOUT"}

\* Worker w has reported exactly one record, and it has this status; a
\* failure record carries neither rate nor count of words.
OutcomeIs(w, status) ==
    /\ Len(emitted[w]) = 1
    /\ emitted[w][1].status = status
    /\ status # "OK" => emitted[w][1].rate = None /\ emitted[w][1].count_words = None

Raised(w, exc) ==
    \E j \in 1..Len(exceptions) : exceptions[j] = [task |-> w, exc |-> exc]

\* What get_sanitize_func raises for each URL of the batches ("" if nothing).
DispatchRaises == [url \in AllUrls |-> GetSanitizeFunc(url).raises]

\* The host of a URL, as a URL has it: what follows "https://" or "http://",
\* up to the first "/" (47), "?" (63) or "#" (35).
HostOf(url) ==
    LET rest == IF StartsWith(url, HTTPS_SLASHES)
                THEN SubSeq(url, Len(HTTPS_SLASHES) + 1, Len(url))
                ELSE IF StartsWith(url, HTTP_SLASHES)
                THEN SubSeq(url, Len(HTTP_SLASHES) + 1, Len(url))
                ELSE url
        stops == {k \in 1..Len(rest) : rest[k] \in {47, 63, 35}}
    IN SubSeq(rest, 1, IF stops = {} THEN Len(rest)
                       ELSE (CHOOSE k \in stops : \A j \in stops : k <= j) - 1)

\* The name the extractor of a host is registered under: the host with "_"
\* (95) for its last dot (46), inosmi_ru for inosmi.ru.
ExtractorName(site) ==
    LET dots == {k \in 1..Len(site) : site[k] = 46}
    IN IF dots = {} THEN site
       ELSE LET last == CHOOSE k \in dots : \A j \in dots : j <= k
            IN SubSeq(site, 1, last - 1) \o <<95>>
                   \o SubSeq(site, last + 1, Len(site))

\* The URLs of the batches whose host has no registered extractor, whatever
\* get_sanitize_func makes of the URL.
UnregisteredUrls == {url \in AllUrls : ExtractorName(HostOf(url)) \notin SANITIZERS}

\* The host of the URL has no registered extractor.
Unregistered(url) == url \in UnregisteredUrls

\* The regular expression of get_sanitize_func matches the URL.
Matched(url) == DispatchRaises[url] # "ValueError"

\* The dispatch or the extraction of worker w fails for another reason than
\* an unregistered host: the URL is not matched, or the extractor raises.
DispatchFails(w) ==
    \/ DispatchRaises[urls[w]] = "ValueError"
    \/ DispatchRaises[urls[w]] = "" /\ Sanitize(html[w]).raises # ""

\* C1: the list handle_sessions returns holds exactly one record per URL of
\* the batch, also when the batch is run by the web server.
C1_OneOutcomePerUrl ==
    batch = "returned" => Len(result[1]) = Len(urls)

\* C2: outside the test mode, no worker is ever cancelled because of the
\* way another worker of the batch ended.
C2_NoWorkerCancelled ==
    ~test_mode => \A w \in Spawned : exit[w] # "cancelled"

\* C3: handle_sessions has returned (or raised) only when every worker it
\* spawned is in its terminal state and no task runs; the list it returned
\* is the list of the batch, to which nothing is added afterwards.
C3_ReturnsAfterAllDone ==
    /\ batch \in {"returned", "raised"} =>
          /\ running = NoTask
          /\ \A w \in Spawned : pc[w] = "DONE"
    /\ batch = "returned" => result = Some(articles_rate)

C3_Witness ==
    /\ batch = "returned"
    /\ Len(urls) = 2
    /\ Len(result[1]) = 2
    /\ \E w \in Spawned : OutcomeIs(w, "TIMEOUT")
    /\ \E w \in Spawned : OutcomeIs(w, "OK")

\* C4: outside the test mode, a worker whose fetch failed, by an error
\* status or by a failure of the connection, reports a FETCH_ERROR record
\* and returns: nothing is raised into the batch.
C4_FetchFailureIsFetchError ==
    ~test_mode =>
        \A w \in Spawned :
            fetched[w] \in {"ClientResponseError", "ClientConnectorError"} =>
                /\ OutcomeIs(w, "FETCH_ERROR")
                /\ exit[w] = "returned"
                /\ exceptions = <<>>

C6_LateFetchIsTimeout ==
    ~test_mode =>
        \A w \in Spawned :
            (late[w] /\ pc[w] = "DONE") => OutcomeIs(w, "TIMEOUT")

\* C7: outside the test mode, a worker whose dispatch or extraction fails
\* for another reason than an unregistered host (a URL that is not matched,
\* an extractor that raises) reports a PARSING_ERROR record and returns.
C7_DispatchFailureIsParsingError ==
    ~test_mode =>
        \A w \in Spawned :
            (pc[w] = "DONE" /\ fetched[w] = "ok" /\ DispatchFails(w)) =>
                /\ OutcomeIs(w, "PARSING_ERROR")
                /\ exit[w] = "returned"

\* A record has one of the four statuses, and has a rate and a count of
\* words exactly when the status is OK.
WellFormed(record) ==
    /\ record.status \in Statuses
    /\ record.status = "OK" <=> record.rate # None
    /\ record.status = "OK" <=> record.count_words # None

\* C8: every record a worker reports, and every record of the list of the
\* batch, has one of the four statuses, and has rate and count_words exactly
\* when its status is OK.
C8_RateIffOk ==
    /\ \A w \in Workers : \A i \in 1..Len(emitted[w]) : WellFormed(emitted[w][i])
    /\ \A i \in 1..Len(articles_rate) : WellFormed(articles_rate[i])

C8_Witness ==
    /\ Len(articles_rate) = 2
    /\ articles_rate[1].status = "OK"
    /\ articles_rate[1].rate = Some(5000)
    /\ articles_rate[2].status \in {"FETCH_ERROR", "PARSING_ERROR", "TIMEOUT"}

\* C9: in the test mode a worker that reported a failure record raised the
\* matching error out of process_article, every caught error that was raised
\* has its record reported and saved, and handle_sessions ends by raising
\* instead of returning; outside the test mode none of the three errors
\* leaves a worker, and a worker that reported a failure record returned.
\* The batch raises exactly when some worker raised.
C9_TestModeReraises ==
    /\ \A w \in Spawned :
          (pc[w] = "DONE" /\ emitted[w] # <<>> /\ emitted[w][1].status # "OK") =>
              IF test_mode
              THEN /\ exit[w] = "raised"
                   /\ \E exc \in CaughtExceptions :
                         /\ Raised(w, exc)
                         /\ emitted[w][1].status = ErrorStatus(exc)
              ELSE exit[w] = "returned"
    /\ \A j \in 1..Len(exceptions) :
          exceptions[j].exc \in CaughtExceptions =>
              /\ test_mode
              /\ OutcomeIs(exceptions[j].task, ErrorStatus(exceptions[j].exc))
              /\ \E i \in 1..Len(articles_rate) :
                    articles_rate[i] = emitted[exceptions[j].task][1]
    /\ batch \in {"returned", "raised"} => (batch = "raised" <=> exceptions # <<>>)

C9_Witness ==
    /\ test_mode
    /\ test_timeout = TIMEOUT_TIME + 1
    /\ batch = "raised"
    /\ exceptions = <<[task |-> 1, exc |-> "TimeoutError"]>>
    /\ Len(articles_rate) = 1
    /\ articles_rate[1].status = "TIMEOUT"

\* The tokens the claim names: the normalized forms of the words of the
\* text, in their order, that are longer than 2 or are the particle.
ExpectedTokens(analyzer, article_text) ==
    LET split == Split(article_text)
        normalized == [k \in 1..Len(split) |->
                          NormalForm(analyzer, CleanWord(split[k]))]
    IN SelectSeq(normalized, LAMBDA n : Len(n) > 2 \/ n = W_NE)

\* C10: when split_by_words returns, its list is exactly the normalized
\* forms, in order, of the words of the text whose normalized form is longer
\* than 2 or is the particle, and is no longer than the number of words; for
\* the two texts of the repository's tests it is the list the tests assert.
C10_SplitByWordsKeeps ==
    \A w \in Spawned :
        pc[w] = "SCORING" =>
            /\ words[w] = ExpectedTokens(morph, text[w])
            /\ Len(words[w]) <= Len(Split(text[w]))
            /\ text[w] = TEST_TEXT_HOCHET => words[w] = TEST_WORDS_HOCHET
            /\ text[w] = TEST_TEXT_STALO => words[w] = TEST_WORDS_STALO

C10_Witness ==
    /\ pc[1] = "SCORING"
    /\ Len(Split(text[1])) = 2
    /\ words[1] = <<W_NE>>

\* Number of the words of the list that belong to the lexicon, each counted
\* as often as the list has it.
RECURSIVE CountCharged(_, _)
CountCharged(article_words, charged) ==
    IF article_words = <<>> THEN 0
    ELSE (IF Head(article_words) \in charged THEN 1 ELSE 0)
         + CountCharged(Tail(article_words), charged)

\* C11: calculate_jaundice_rate returns 0.0 for an empty list of words,
\* whatever the lexicon, the empty one included; the division is never
\* reached.
C11_EmptyListRatesZero ==
    (jaundice_rate # None /\ words[1] = <<>>) => jaundice_rate = Some(0)

\* The function has returned 0.0 for an empty list and an empty lexicon.
C11_Witness ==
    /\ batch = "test_rate"
    /\ words[1] = <<>>
    /\ lexicon = {}
    /\ jaundice_rate = Some(0)

\* C12: among lists of the same length, not empty, the rate does not fall
\* when the number of words of the lexicon (with multiplicity) does not:
\* no list with at most as many has a higher rate; the rate is 0 when no
\* word belongs to the lexicon and 100 when all do.
C12_RateMonotone ==
    (jaundice_rate # None /\ words[1] # <<>>) =>
        /\ \A other \in WordLists :
              (/\ Len(other) = Len(words[1])
               /\ CountCharged(other, lexicon)
                     <= CountCharged(words[1], lexicon))
              => CalculateJaundiceRate(other, lexicon) <= jaundice_rate[1]
        /\ CountCharged(words[1], lexicon) = 0 => jaundice_rate = Some(0)
        /\ CountCharged(words[1], lexicon) = Len(words[1])
              => jaundice_rate = Some(10000)

\* A list of three words, one charged word twice among them, has been rated
\* 66.67.
C12_Witness ==
    /\ batch = "test_rate"
    /\ Len(words[1]) = 3
    /\ CountCharged(words[1], lexicon) = 2
    /\ Cardinality({words[1][i] : i \in 1..3} \cap lexicon) = 1
    /\ jaundice_rate = Some(6667)

\* C13: the deadline covers the four stages as one unit: a worker whose
\* deadline has elapsed before it reported, in whatever stage, is aborted
\* and reports TIMEOUT; stated here by its last part, such a worker never
\* reports OK.
C13_DeadlineCoversAllStages ==
    [][\A w \in Workers :
          (/\ Started(w)
           /\ remaining[w] = 0
           /\ Len(emitted'[w]) > Len(emitted[w]))
          => emitted'[w][Len(emitted'[w])].status # "OK"]_vars

\* C14: a worker reports at most one record, and a record reported is never
\* changed, neither in what the worker logged nor in the list of the batch;
\* so no worker reports OK and then TIMEOUT.
C14_OneRecordNeverChanged ==
    [][/\ \A w \in Workers :
            /\ Len(emitted'[w]) <= 1
            /\ emitted[w] # <<>> => emitted'[w] = emitted[w]
       /\ \A i \in 1..Len(articles_rate) :
            /\ i <= Len(articles_rate')
            /\ articles_rate'[i] = articles_rate[i]]_vars

\* A batch has returned with a worker that reported OK and one whose
\* deadline fired, each with its one record.
C14_Witness ==
    /\ batch = "returned"
    /\ \E w, v \in Spawned :
          /\ Len(emitted[w]) = 1 /\ emitted[w][1].status = "OK"
          /\ Len(emitted[v]) = 1 /\ emitted[v][1].status = "TIMEOUT"
    /\ Len(result[1]) = 2

\* Every record of the list is of the batch handler h runs or ran last.
OwnRecordsOnly(h, list) ==
    \A i \in 1..Len(list) : list[i].batch = serial[h]

\* C15: the list of a batch holds records of its own workers only, from its
\* beginning (when it is empty) to its return: no record of an earlier
\* batch or of a batch run side by side is in it, and none of its records is
\* in the list of another batch.
C15_BatchesIsolated ==
    \A h \in Handlers :
        /\ request[h] \in {"running", "failing"} =>
              LET list == lists[ArticlesRateVarGet(HandlerTask(h))]
              IN /\ OwnRecordsOnly(h, list)
                 /\ \A i \in 1..Len(list) : list[i].worker \notin pending[h]
                 /\ \A i, j \in 1..Len(list) : list[i] = list[j] => i = j
        /\ request[h] = "returned" => OwnRecordsOnly(h, response[h][1])

\* Handler h has returned the records of its batch, the last of the batches,
\* while handler g is still running a batch that began before it and has
\* records of its own.
C15_Witness ==
    \E h, g \in Handlers :
        /\ h # g
        /\ request[h] = "returned"
        /\ serial[h] = MaxBatches
        /\ Len(response[h][1]) > 0
        /\ request[g] = "running"
        /\ serial[g] < serial[h]
        /\ Len(lists[ArticlesRateVarGet(HandlerTask(g))]) > 0

\* C16: the session and the lexicon are there before any worker is spawned,
\* and the session is open as long as a worker of the batch has not ended,
\* whatever has become of the other workers; it is closed only when all
\* have ended.
C16_SessionOutlivesWorkers ==
    batch \in {"running", "returned", "raised"} =>
        /\ \A w \in Spawned :
              pc[w] # "DONE" => session = "open" /\ lexicon = ChargedWords
        /\ session = "closed" => \A w \in Spawned : pc[w] = "DONE"
        /\ batch = "running" => session = "open"
        /\ batch \in {"returned", "raised"} => session = "closed"

\* One worker has ended timed out or with a failed fetch, and the session
\* is open for another that is still fetching.
C16_Witness ==
    /\ session = "open"
    /\ \E w, v \in Spawned :
          /\ pc[w] = "DONE"
          /\ Len(emitted[w]) = 1
          /\ emitted[w][1].status \in {"TIMEOUT", "FETCH_ERROR"}
          /\ pc[v] = "FETCHING"
          /\ gets[v] = 1

\* A step of the task of worker w, or of its timer.
WorkerStep(w) ==
    \/ Start(w) \/ Wake(w) \/ FetchReturn(w) \/ Extract(w)
    \/ TokenizeWord(w) \/ TokenizeResume(w) \/ TokenizeReturn(w) \/ Score(w)
    \/ TimerFire(w) \/ Deliver(w)

\* C17: the tokenizer gives up the event loop after every word it has
\* handled; whenever it has, every other worker the loop has something to
\* run for can take a step; and once a worker is tokenizing, every worker
\* of the batch reaches its end.
C17_TokenizerYields ==
    /\ [][\A w \in Workers :
             (pc[w] = "TOKENIZING" /\ Len(todo'[w]) < Len(todo[w]))
             => running' = NoTask]_vars
    /\ [](\A w \in Workers : \A v \in Workers :
             (/\ batch = "running"
              /\ w \in Spawned /\ v \in Spawned /\ v # w
              /\ pc[w] = "TOKENIZING" /\ running = NoTask
              /\ Ready(v))
             => ENABLED WorkerStep(v))
    /\ \A w \in Workers : \A v \in Workers :
          (/\ batch = "running"
           /\ w \in Spawned /\ v \in Spawned
           /\ pc[w] = "TOKENIZING")
          ~> (pc[v] = "DONE")

\* A worker has handled the first of its two words and given up the loop,
\* and a sibling whose response is there has not gone on yet.
C17_Witness ==
    /\ batch = "running"
    /\ running = NoTask
    /\ \E w, v \in Spawned :
          /\ pc[w] = "TOKENIZING"
          /\ Len(words[w]) = 1 /\ Len(todo[w]) = 1
          /\ pc[v] = "FETCHING" /\ wait[v] = 0 /\ remaining[v] > 0
          /\ ~cancelled

\* C18: the list returned holds the records in the order the workers
\* reported them, whatever the places of their URLs in the batch: its i-th
\* record is the record of the i-th worker to report.
C18_ResultInReportOrder ==
    batch = "returned" =>
        /\ \A i \in 1..Len(result[1]) :
              /\ i <= Len(reported)
              /\ result[1][i] = emitted[reported[i]][1]
        /\ logHandler => Len(result[1]) = Len(reported)

\* A batch of two has returned two different records, that of its second
\* URL first.
C18_Witness ==
    /\ batch = "returned"
    /\ Len(urls) = 2
    /\ reported = <<2, 1>>
    /\ Len(result[1]) = 2
    /\ result[1][1] # result[1][2]
    /\ result[1][1] = emitted[2][1]

\* The place of a stage in the order of process_article.
StageRank(stage) ==
    CASE stage = "PENDING" -> 0
      [] stage = "SLEEPING" -> 1
      [] stage = "FETCHING" -> 2
      [] stage = "EXTRACTING" -> 3
      [] stage = "TOKENIZING" -> 4
      [] stage = "SCORING" -> 5
      [] stage = "DONE" -> 6

\* C19: no worker tries again or goes back: it issues at most one GET, its
\* stage only moves forward, DONE is final, and a fetch that has failed
\* leaves the worker at DONE with no further GET.
C19_NoRetryNoReentry ==
    [][\A w \in Workers :
          /\ gets'[w] <= 1
          /\ gets'[w] >= gets[w]
          /\ StageRank(pc'[w]) >= StageRank(pc[w])
          /\ pc[w] = "DONE" => pc'[w] = "DONE" /\ gets'[w] = gets[w]
          /\ fetched'[w] \notin {"none", "ok"} => pc'[w] = "DONE"]_vars

\* A worker whose fetch failed with an error status has ended with its one
\* GET and its FETCH_ERROR record, while the batch goes on.
C19_Witness ==
    /\ batch = "running"
    /\ \E w \in Spawned :
          /\ fetched[w] = "ClientResponseError"
          /\ gets[w] = 1
          /\ pc[w] = "DONE"
          /\ OutcomeIs(w, "FETCH_ERROR")
    /\ \E v \in Spawned : pc[v] # "DONE"

\* C20: every batch that has begun comes to its end: all its workers reach
\* DONE, also those whose response would come after the deadline, and
\* handle_sessions returns or raises.
C20_BatchTerminates ==
    (batch = "running")
    ~> (/\ batch \in {"returned", "raised"}
        /\ \A w \in Spawned : pc[w] = "DONE")

\* A batch has returned although the response to one of its workers was
\* not there by the deadline: the worker was timed out.
C20_Witness ==
    /\ batch = "returned"
    /\ \E w \in Spawned :
          /\ late[w]
          /\ pc[w] = "DONE"
          /\ OutcomeIs(w, "TIMEOUT")

============================================================================
